---- MODULE Spec2Model ----
(***************************************************************************)
(* yywc: ingestion of a chat export (export_reader.py) and the analytics   *)
(* computed from it (analyze.py).                                          *)
(*                                                                         *)
(* Python values are tagged records:                                       *)
(*   [t |-> "null"]                 None / JSON null                       *)
(*   [t |-> "str", s |-> <<..>>]    a str, as its sequence of code points  *)
(*   [t |-> "num", n |-> i]         an integral JSON number                *)
(*   [t |-> "big"], [t |-> "nan"]   1e20 and NaN (json.loads accepts both) *)
(*   [t |-> "list", xs |-> <<..>>]  a list                                 *)
(*   [t |-> "obj", k1 |-> v1, ..]   a dict with keys k1, ..                *)
(*   [t |-> "map", nodes |-> <<..>>] a dict keyed by opaque ids, by values *)
(*   [t |-> "iso", ...]             a str in ISO-8601 shape, by its fields *)
(*   [t |-> "dt", d |-> days, s |-> second of day]   an aware UTC datetime *)
(***************************************************************************)
EXTENDS Integers, Sequences, FiniteSets, TLC

VARIABLES
    top,          \* the value json.loads returned for conversations.json
    year,         \* --year: Null or a "num"
    role_scope,   \* --role-scope: a set of strings
    tz,           \* the system's local UTC offset in seconds (ambient)
    pc,           \* "start", "ingested", "failed", "summarized"
    detected,     \* what _detect_export_source returned
    dataset,      \* the Dataset read_export returned or the exception it
                  \* raised ([t |-> "raise"]); Null before the call
    summary,      \* the Summary summarize returned, or Null
    redact,       \* --redact
    max_excerpts, \* --max-excerpts
    arg,          \* the argument of a function that is called on its own
    result,       \* what that function returned, or Null
    fs            \* the paths main was given and what lies at them, or Null
                  \* where the run starts from the parsed conversations.json

vars == <<top, year, role_scope, tz, pc, detected, dataset, summary, redact, max_excerpts,
          arg, result, fs>>

----------------------------------------------------------------------------
(* Bounds of the checked inputs *)

\* the longest list drawn from the catalogue of conversation records
MaxConvs == 2
\* the longest list of one-message conversations with numbered titles
MaxWide == 17

----------------------------------------------------------------------------
(* Python values *)

Null == [t |-> "null"]
JStr(s) == [t |-> "str", s |-> s]
JNum(n) == [t |-> "num", n |-> n]
JBig == [t |-> "big"]
JNaN == [t |-> "nan"]
JList(xs) == [t |-> "list", xs |-> xs]
JMap(nodes) == [t |-> "map", nodes |-> nodes]
Raise(exc) == [t |-> "raise", exc |-> exc]
IsRaise(v) == v.t = "raise"

\* isinstance(v, dict).  A "map" is a dict whose keys are opaque (the node
\* ids of a ChatGPT mapping): it is given by its values, in insertion order.
IsDict(v) == v.t \in {"obj", "map"}
IsList(v) == v.t = "list"
\* isinstance(v, str): an ISO-shaped string is a str too
IsStr(v) == v.t \in {"str", "iso"}

\* k in d
HasKey(d, k) == d.t = "obj" /\ k \in (DOMAIN d) \ {"t"}

\* d.get(k)
Get(d, k) == IF HasKey(d, k) THEN d[k] ELSE Null

\* d.get(k, default)
GetOr(d, k, default) == IF HasKey(d, k) THEN d[k] ELSE default

\* bool(v)
Truthy(v) ==
    CASE v.t = "null" -> FALSE
      [] v.t = "str"  -> v.s # <<>>
      [] v.t = "num"  -> v.n # 0
      [] v.t = "list" -> v.xs # <<>>
      [] v.t = "obj"  -> (DOMAIN v) \ {"t"} # {}
      [] v.t = "map"  -> v.nodes # <<>>
      [] OTHER        -> TRUE

\* v or ""
OrEmpty(v) == IF Truthy(v) THEN v ELSE JStr(<<>>)

\* v or "Untitled"
s_Untitled == <<85, 110, 116, 105, 116, 108, 101, 100>>
OrUntitled(v) == IF Truthy(v) THEN v ELSE JStr(s_Untitled)

----------------------------------------------------------------------------
(* Strings: sequences of code points *)

s_user == <<117, 115, 101, 114>>
s_assistant == <<97, 115, 115, 105, 115, 116, 97, 110, 116>>
s_human == <<104, 117, 109, 97, 110>>
s_unknown == <<117, 110, 107, 110, 111, 119, 110>>
s_system == <<115, 121, 115, 116, 101, 109>>
s_text == <<116, 101, 120, 116>>
s_multimodal_text == <<109, 117, 108, 116, 105, 109, 111, 100, 97, 108, 95, 116, 101, 120, 116>>
s_code == <<99, 111, 100, 101>>
s_None == <<78, 111, 110, 101>>

\* str.isspace() of one character (the ASCII and Latin-1 white space)
IsSpace(c) == c \in {9, 10, 11, 12, 13, 28, 29, 30, 31, 32, 133, 160}

RECURSIVE LStrip(_)
LStrip(s) == IF s # <<>> /\ IsSpace(Head(s)) THEN LStrip(Tail(s)) ELSE s

RECURSIVE RStrip(_)
RStrip(s) ==
    IF s # <<>> /\ IsSpace(s[Len(s)]) THEN RStrip(SubSeq(s, 1, Len(s) - 1)) ELSE s

\* s.strip()
Strip(s) == RStrip(LStrip(s))

\* "\n".join(chunks)
RECURSIVE JoinLines(_)
JoinLines(chunks) ==
    IF chunks = <<>> THEN <<>>
    ELSE IF Len(chunks) = 1 THEN chunks[1]
    ELSE chunks[1] \o <<10>> \o JoinLines(Tail(chunks))

\* a < b for str: by code point, a proper prefix first
RECURSIVE StrLess(_, _)
StrLess(a, b) ==
    IF b = <<>> THEN FALSE
    ELSE IF a = <<>> THEN TRUE
    ELSE IF Head(a) # Head(b) THEN Head(a) < Head(b)
    ELSE StrLess(Tail(a), Tail(b))

\* str(n) for an int
RECURSIVE Digits(_)
Digits(n) == IF n < 10 THEN <<48 + n>> ELSE Digits(n \div 10) \o <<48 + (n % 10)>>

DecStr(n) == IF n < 0 THEN <<45>> \o Digits(0 - n) ELSE Digits(n)

\* str(v).  The repr of a list or dict is not reproduced character by
\* character: only its brackets are kept, which is enough to make it a
\* non-empty string that starts and ends with a non-space character.
PyStr(v) ==
    CASE v.t = "str"  -> v.s
      [] v.t = "num"  -> DecStr(v.n)
      [] v.t = "null" -> s_None
      [] v.t = "list" -> <<91, 93>>
      [] v.t \in {"obj", "map"} -> <<123, 125>>
      [] OTHER        -> <<63>>

----------------------------------------------------------------------------
(* Calendar arithmetic of datetime (proleptic Gregorian) *)

SecondsPerDay == 24 * 3600

Dt(d, s) == [t |-> "dt", d |-> d, s |-> s]

IsLeap(y) == (y % 4 = 0 /\ y % 100 # 0) \/ y % 400 = 0

DaysInMonth(y, m) ==
    IF m = 2 THEN (IF IsLeap(y) THEN 29 ELSE 28)
    ELSE IF m \in {4, 6, 9, 11} THEN 30 ELSE 31

\* days from 1970-01-01 to y-m-d
DaysFromCivil(y, m, d) ==
    LET yy  == IF m <= 2 THEN y - 1 ELSE y
        era == yy \div 400
        yoe == yy - era * 400
        mp  == (m + 9) % 12
        doy == (153 * mp + 2) \div 5 + d - 1
        doe == yoe * 365 + yoe \div 4 - yoe \div 100 + doy
    IN  era * 146097 + doe - 719468

\* the date [y, m, d] that lies z days after 1970-01-01
CivilFromDays(z) ==
    LET zz  == z + 719468
        era == zz \div 146097
        doe == zz - era * 146097
        yoe == (doe - doe \div 1460 + doe \div 36524 - doe \div 146096) \div 365
        doy == doe - (365 * yoe + yoe \div 4 - yoe \div 100)
        mp  == (5 * doy + 2) \div 153
        d   == doy - (153 * mp + 2) \div 5 + 1
        m   == IF mp < 10 THEN mp + 3 ELSE mp - 9
        y   == yoe + era * 400 + (IF m <= 2 THEN 1 ELSE 0)
    IN  [y |-> y, m |-> m, d |-> d]

MinDay == DaysFromCivil(1, 1, 1)
MaxDay == DaysFromCivil(9999, 12, 31)

\* dt.year, dt.month of an aware UTC datetime
YearOf(dt) == CivilFromDays(dt.d).y
MonthOf(dt) == CivilFromDays(dt.d).m

\* dt.weekday(): Monday is 0.  1970-01-01 was a Thursday.
WeekdayOf(dt) == (dt.d + 3) % 7

\* a < b for aware datetimes
DtLess(a, b) == a.d < b.d \/ (a.d = b.d /\ a.s < b.s)

\* dt + seconds, within a day's reach
DtShift(dt, secs) ==
    LET total == dt.s + secs
    IN  Dt(dt.d + total \div SecondsPerDay, total % SecondsPerDay)

----------------------------------------------------------------------------
(* export_reader.py *)

\* float(s) of a str succeeds on a decimal integer literal; the other
\* literals float() accepts ("1e3", "inf", ...) are not among the inputs.
IsDecimal(s) == s # <<>> /\ \A i \in 1..Len(s) : s[i] \in 48..57

RECURSIVE ParseDecimal(_)
ParseDecimal(s) ==
    IF s = <<>> THEN 0
    ELSE ParseDecimal(SubSeq(s, 1, Len(s) - 1)) * 10 + (s[Len(s)] - 48)

\* datetime.fromtimestamp(value, tz=utc): raises outside years 1..9999
FromTimestamp(n) ==
    LET dt == Dt(n \div SecondsPerDay, n % SecondsPerDay)
    IN  IF dt.d < MinDay \/ dt.d > MaxDay THEN Raise("ValueError") ELSE dt

\* _dt_from_ts: None, a datetime, or the exception fromtimestamp raises
\* outside the try block
_dt_from_ts(ts) ==
    CASE ts.t = "null" -> Null
      [] ts.t = "num"  -> FromTimestamp(ts.n)
      [] ts.t = "str"  -> IF IsDecimal(ts.s) THEN FromTimestamp(ParseDecimal(ts.s))
                          ELSE Null
      [] ts.t = "big"  -> Raise("OverflowError")
      [] ts.t = "nan"  -> Raise("ValueError")
      [] OTHER         -> Null

\* datetime.fromisoformat accepts the fields of an ISO-shaped string only if
\* they name a real date and time
IsoFieldsValid(v) ==
    /\ v.y \in 1..9999
    /\ v.mo \in 1..12
    /\ v.day \in 1..DaysInMonth(v.y, v.mo)
    /\ v.h \in 0..23
    /\ v.mi \in 0..59
    /\ v.sec \in 0..59

\* _dt_from_iso.  zone is "Z", "offset" (off: seconds east of UTC) or
\* "naive"; replace("Z", "+00:00") makes "Z" the offset 0, and astimezone
\* reads a naive value in the system's local zone.  OverflowError is not
\* among the exceptions the function catches.
_dt_from_iso(iso_str, local_offset) ==
    IF ~IsStr(iso_str) THEN Null
    ELSE IF iso_str.t = "str" THEN Null
    ELSE IF ~IsoFieldsValid(iso_str) THEN Null
    ELSE
        LET off  == CASE iso_str.zone = "Z" -> 0
                      [] iso_str.zone = "offset" -> iso_str.off
                      [] OTHER -> local_offset
            wall == Dt(DaysFromCivil(iso_str.y, iso_str.mo, iso_str.day),
                       iso_str.h * 3600 + iso_str.mi * 60 + iso_str.sec)
            utc  == DtShift(wall, 0 - off)
        IN  IF utc.d < MinDay \/ utc.d > MaxDay THEN Raise("OverflowError") ELSE utc

\* the str(p) for p in parts if p is not None
RECURSIVE TextParts(_)
TextParts(parts) ==
    IF parts = <<>> THEN <<>>
    ELSE IF Head(parts).t = "null" THEN TextParts(Tail(parts))
    ELSE <<PyStr(Head(parts))>> \o TextParts(Tail(parts))

\* the chunks of a multimodal_text content
RECURSIVE MultimodalChunks(_)
MultimodalChunks(parts) ==
    IF parts = <<>> THEN <<>>
    ELSE LET part == Head(parts)
             rest == MultimodalChunks(Tail(parts))
         IN  IF IsStr(part) THEN <<PyStr(part)>> \o rest
             ELSE IF IsDict(part) /\ HasKey(part, "text")
                  THEN <<PyStr(OrEmpty(Get(part, "text")))>> \o rest
             ELSE rest

NonEmptyChunk(c) == c # <<>>

_extract_text_from_content(content) ==
    IF ~IsDict(content) THEN <<>>
    ELSE
        LET content_type == Get(content, "content_type")
            parts == Get(content, "parts")
        IN  IF content_type = JStr(s_text) /\ IsList(parts)
                THEN Strip(JoinLines(TextParts(parts.xs)))
            ELSE IF content_type = JStr(s_multimodal_text) /\ IsList(parts)
                THEN Strip(JoinLines(SelectSeq(MultimodalChunks(parts.xs), NonEmptyChunk)))
            ELSE <<>>

\* _iter_messages: the message payloads of a conversation's mapping
RECURSIVE NodeMessages(_)
NodeMessages(nodes) ==
    IF nodes = <<>> THEN <<>>
    ELSE LET node == Head(nodes)
             rest == NodeMessages(Tail(nodes))
         IN  IF IsDict(node) /\ Truthy(Get(node, "message")) /\ IsDict(Get(node, "message"))
             THEN <<Get(node, "message")>> \o rest
             ELSE rest

_iter_messages(conversation) ==
    LET mapping == Get(conversation, "mapping")
    IN  IF ~IsDict(mapping) THEN <<>>
        ELSE IF mapping.t = "map" THEN NodeMessages(mapping.nodes)
        ELSE <<>>

_get_role(message) ==
    LET author == Get(message, "author")
    IN  IF IsDict(author) /\ IsStr(Get(author, "role")) THEN Get(author, "role")
        ELSE JStr(s_unknown)

ModelKeyValue(metadata, key) ==
    LET value == Get(metadata, key)
    IN  IF IsStr(value) /\ Strip(PyStr(value)) # <<>> THEN JStr(Strip(PyStr(value)))
        ELSE Null

_get_model(message) ==
    LET metadata == Get(message, "metadata")
    IN  IF ~IsDict(metadata) THEN Null
        ELSE IF ModelKeyValue(metadata, "model_slug") # Null
            THEN ModelKeyValue(metadata, "model_slug")
        ELSE IF ModelKeyValue(metadata, "model") # Null
            THEN ModelKeyValue(metadata, "model")
        ELSE ModelKeyValue(metadata, "model_name")

\* _load_conversations_json, given what json.loads returned
IsRecord(c) == IsDict(c)

\* a variant that hands on every element of the list
LoadWithoutFiltering(data) ==
    IF ~IsList(data) THEN Raise("ValueError")
    ELSE data

_load_conversations_json(data) ==
    IF ~IsList(data) THEN Raise("ValueError")
    ELSE JList(SelectSeq(data.xs, IsRecord))

\* a variant that asks whether any record has the shape
DetectFromAnyRecord(conversations) ==
    IF conversations = <<>> THEN "unknown"
    ELSE IF \E i \in 1..Len(conversations) :
                HasKey(conversations[i], "chat_messages") /\ HasKey(conversations[i], "uuid")
        THEN "claude"
    ELSE IF \E i \in 1..Len(conversations) :
                HasKey(conversations[i], "mapping") /\ HasKey(conversations[i], "id")
        THEN "chatgpt"
    ELSE "unknown"

_detect_export_source(conversations) ==
    IF conversations = <<>> THEN "unknown"
    ELSE LET sample == conversations[1]
         IN  IF HasKey(sample, "chat_messages") /\ HasKey(sample, "uuid") THEN "claude"
             ELSE IF HasKey(sample, "mapping") /\ HasKey(sample, "id") THEN "chatgpt"
             ELSE "unknown"

\* hashable values: mapping.get(sender, sender) raises TypeError on the rest
IsHashable(v) == v.t \notin {"list", "obj", "map"}

_claude_sender_to_role(sender) ==
    IF ~IsHashable(sender) THEN Raise("TypeError")
    ELSE IF sender = JStr(s_human) THEN JStr(s_user)
    ELSE IF sender = JStr(s_assistant) THEN JStr(s_assistant)
    ELSE sender

\* the stripped text of each content item that has one
RECURSIVE ClaudeChunks(_)
ClaudeChunks(content) ==
    IF content = <<>> THEN <<>>
    ELSE LET item == Head(content)
             rest == ClaudeChunks(Tail(content))
         IN  IF IsDict(item) /\ IsStr(Get(item, "text")) /\ Strip(PyStr(Get(item, "text"))) # <<>>
             THEN <<Strip(PyStr(Get(item, "text")))>> \o rest
             ELSE rest

_extract_claude_text(message) ==
    LET text == Get(message, "text")
        content == Get(message, "content")
    IN  IF IsStr(text) /\ Strip(PyStr(text)) # <<>> THEN Strip(PyStr(text))
        ELSE IF IsList(content) THEN JoinLines(ClaudeChunks(content.xs))
        ELSE <<>>

\* role not in role_scope: the scope holds strings
InScope(role, scope) == role.t = "str" /\ role.s \in scope

Conversation(conversation_id, title, created_at, updated_at) ==
    [conversation_id |-> conversation_id, title |-> title,
     created_at |-> created_at, updated_at |-> updated_at]

Message(conversation_id, conversation_title, message_id, role, created_at, text, model) ==
    [t |-> "msg",
     conversation_id |-> conversation_id, conversation_title |-> conversation_title,
     message_id |-> message_id, role |-> role, created_at |-> created_at,
     text |-> text, model |-> model]

Dataset(conversations, messages, source) ==
    [t |-> "dataset", conversations |-> conversations, messages |-> messages,
     source |-> source]

\* a variant that sorts by created_at alone
KeyLessByTimeOnly(a, b) == DtLess(a.created_at, b.created_at)

\* the key messages.sort uses, compared as Python compares tuples
KeyLess(a, b) ==
    \/ DtLess(a.created_at, b.created_at)
    \/ /\ a.created_at = b.created_at
       /\ \/ StrLess(a.conversation_id, b.conversation_id)
          \/ /\ a.conversation_id = b.conversation_id
             /\ StrLess(a.message_id, b.message_id)

\* list.sort is stable: m goes behind every element that is not greater
RECURSIVE InsertSorted(_, _)
InsertSorted(sorted, m) ==
    IF sorted = <<>> THEN <<m>>
    ELSE IF KeyLess(m, Head(sorted)) THEN <<m>> \o sorted
    ELSE <<Head(sorted)>> \o InsertSorted(Tail(sorted), m)

RECURSIVE SortFrom(_, _)
SortFrom(sorted, msgs) ==
    IF msgs = <<>> THEN sorted
    ELSE SortFrom(InsertSorted(sorted, Head(msgs)), Tail(msgs))

SortMessages(msgs) == SortFrom(<<>>, msgs)

\* a variant that keeps a message whose text is empty
ChatgptMessageKeepsEmptyText(conv_id, title, msg, yr, scope) ==
    LET created == _dt_from_ts(Get(msg, "create_time"))
        role == _get_role(msg)
        text == _extract_text_from_content(Get(msg, "content"))
    IN  IF IsRaise(created) THEN created
        ELSE IF created = Null THEN Null
        ELSE IF yr # Null /\ YearOf(created) # yr.n THEN Null
        ELSE IF ~InScope(role, scope) THEN Null
        ELSE Message(conv_id, title, PyStr(OrEmpty(Get(msg, "id"))), role, created,
                     text, _get_model(msg))

\* One pass of the loop body of _read_chatgpt_export (lines 265-287): Null
\* for a message the body skips (continue), the exception, or the Message.
ChatgptMessage(conv_id, title, msg, yr, scope) ==
    LET created == _dt_from_ts(Get(msg, "create_time"))
        role == _get_role(msg)
        text == _extract_text_from_content(Get(msg, "content"))
    IN  IF IsRaise(created) THEN created
        ELSE IF created = Null THEN Null
        ELSE IF yr # Null /\ YearOf(created) # yr.n THEN Null
        ELSE IF ~InScope(role, scope) THEN Null
        ELSE IF text = <<>> THEN Null
        ELSE Message(conv_id, title, PyStr(OrEmpty(Get(msg, "id"))), role, created,
                     text, _get_model(msg))

\* a variant that leaves the year filter out
ClaudeMessageAnyYear(conv_id, title, msg, yr, scope, local_offset) ==
    IF ~IsDict(msg) THEN Null
    ELSE
        LET created == _dt_from_iso(Get(msg, "created_at"), local_offset)
            role == _claude_sender_to_role(GetOr(msg, "sender", JStr(<<>>)))
            text == _extract_claude_text(msg)
        IN  IF IsRaise(created) THEN created
            ELSE IF created = Null THEN Null
            ELSE IF IsRaise(role) THEN role
            ELSE IF ~InScope(role, scope) THEN Null
            ELSE IF text = <<>> THEN Null
            ELSE Message(conv_id, title, PyStr(OrEmpty(Get(msg, "uuid"))), role, created,
                         text, Null)

\* One pass of the loop body of _read_claude_export (lines 188-212)
ClaudeMessage(conv_id, title, msg, yr, scope, local_offset) ==
    IF ~IsDict(msg) THEN Null
    ELSE
        LET created == _dt_from_iso(Get(msg, "created_at"), local_offset)
            role == _claude_sender_to_role(GetOr(msg, "sender", JStr(<<>>)))
            text == _extract_claude_text(msg)
        IN  IF IsRaise(created) THEN created
            ELSE IF created = Null THEN Null
            ELSE IF yr # Null /\ YearOf(created) # yr.n THEN Null
            ELSE IF IsRaise(role) THEN role
            ELSE IF ~InScope(role, scope) THEN Null
            ELSE IF text = <<>> THEN Null
            ELSE Message(conv_id, title, PyStr(OrEmpty(Get(msg, "uuid"))), role, created,
                         text, Null)

\* The loop over the messages of one conversation: the messages appended,
\* in order, or the first exception raised
RECURSIVE AppendMessages(_, _)
AppendMessages(acc, outcomes) ==
    IF outcomes = <<>> THEN JList(acc)
    ELSE IF IsRaise(Head(outcomes)) THEN Head(outcomes)
    ELSE IF Head(outcomes) = Null THEN AppendMessages(acc, Tail(outcomes))
    ELSE AppendMessages(Append(acc, Head(outcomes)), Tail(outcomes))

\* a variant that gives the Conversation the raw title, without the
\* placeholder
ChatgptConversationRawTitle(conv, yr, scope) ==
    LET conv_id == PyStr(OrEmpty(Get(conv, "id")))
        title == PyStr(OrUntitled(Get(conv, "title")))
        created_at == _dt_from_ts(Get(conv, "create_time"))
        updated_at == _dt_from_ts(Get(conv, "update_time"))
        raw == _iter_messages(conv)
        msgs == AppendMessages(<<>>,
                    [i \in 1..Len(raw) |-> ChatgptMessage(conv_id, title, raw[i], yr, scope)])
    IN  IF IsRaise(created_at) THEN created_at
        ELSE IF IsRaise(updated_at) THEN updated_at
        ELSE IF IsRaise(msgs) THEN msgs
        ELSE [t |-> "conv",
              conversation |-> Conversation(conv_id, PyStr(OrEmpty(Get(conv, "title"))),
                                            created_at, updated_at),
              messages |-> msgs.xs]

\* The body of the loop over conversations of _read_chatgpt_export (lines
\* 251-287): the Conversation and the Messages it appends, or the exception
ChatgptConversation(conv, yr, scope) ==
    LET conv_id == PyStr(OrEmpty(Get(conv, "id")))
        title == PyStr(OrUntitled(Get(conv, "title")))
        created_at == _dt_from_ts(Get(conv, "create_time"))
        updated_at == _dt_from_ts(Get(conv, "update_time"))
        raw == _iter_messages(conv)
        msgs == AppendMessages(<<>>,
                    [i \in 1..Len(raw) |-> ChatgptMessage(conv_id, title, raw[i], yr, scope)])
    IN  IF IsRaise(created_at) THEN created_at
        ELSE IF IsRaise(updated_at) THEN updated_at
        ELSE IF IsRaise(msgs) THEN msgs
        ELSE [t |-> "conv",
              conversation |-> Conversation(conv_id, title, created_at, updated_at),
              messages |-> msgs.xs]

\* The body of the loop over conversations of _read_claude_export (lines
\* 170-212)
ClaudeConversation(conv, yr, scope, local_offset) ==
    LET conv_id == PyStr(OrEmpty(Get(conv, "uuid")))
        title == PyStr(OrUntitled(Get(conv, "name")))
        created_at == _dt_from_iso(Get(conv, "created_at"), local_offset)
        updated_at == _dt_from_iso(Get(conv, "updated_at"), local_offset)
        chat_messages == Get(conv, "chat_messages")
        raw == IF IsList(chat_messages) THEN chat_messages.xs ELSE <<>>
        msgs == AppendMessages(<<>>,
                    [i \in 1..Len(raw) |->
                        ClaudeMessage(conv_id, title, raw[i], yr, scope, local_offset)])
    IN  IF IsRaise(created_at) THEN created_at
        ELSE IF IsRaise(updated_at) THEN updated_at
        ELSE IF IsRaise(msgs) THEN msgs
        ELSE [t |-> "conv",
              conversation |-> Conversation(conv_id, title, created_at, updated_at),
              messages |-> msgs.xs]

\* a variant that records a conversation only if a message of it survives
RECURSIVE CollectConversationsWithMessages(_, _, _)
CollectConversationsWithMessages(conversations, messages, outcomes) ==
    IF outcomes = <<>> THEN [t |-> "lists", conversations |-> conversations,
                             messages |-> messages]
    ELSE IF IsRaise(Head(outcomes)) THEN Head(outcomes)
    ELSE CollectConversationsWithMessages(
            IF Head(outcomes).messages = <<>> THEN conversations
            ELSE Append(conversations, Head(outcomes).conversation),
            messages \o Head(outcomes).messages, Tail(outcomes))

\* The loop over conversations: both lists as they stand after the last
\* conversation, or the first exception raised
RECURSIVE CollectConversations(_, _, _)
CollectConversations(conversations, messages, outcomes) ==
    IF outcomes = <<>> THEN [t |-> "lists", conversations |-> conversations,
                             messages |-> messages]
    ELSE IF IsRaise(Head(outcomes)) THEN Head(outcomes)
    ELSE CollectConversations(Append(conversations, Head(outcomes).conversation),
                              messages \o Head(outcomes).messages, Tail(outcomes))

_read_chatgpt_export(conversations_raw, yr, scope) ==
    LET lists == CollectConversations(<<>>, <<>>,
                    [i \in 1..Len(conversations_raw) |->
                        ChatgptConversation(conversations_raw[i], yr, scope)])
    IN  IF IsRaise(lists) THEN lists
        ELSE Dataset(lists.conversations, SortMessages(lists.messages), "chatgpt")

_read_claude_export(conversations_raw, yr, scope, local_offset) ==
    LET lists == CollectConversations(<<>>, <<>>,
                    [i \in 1..Len(conversations_raw) |->
                        ClaudeConversation(conversations_raw[i], yr, scope, local_offset)])
    IN  IF IsRaise(lists) THEN lists
        ELSE Dataset(lists.conversations, SortMessages(lists.messages), "claude")

\* a variant that reads an export of unknown shape as a Claude export
ReadExportUnknownAsClaude(data, yr, scope, local_offset) ==
    LET conversations_raw == _load_conversations_json(data)
    IN  IF IsRaise(conversations_raw) THEN conversations_raw
        ELSE IF _detect_export_source(conversations_raw.xs) = "chatgpt"
            THEN _read_chatgpt_export(conversations_raw.xs, yr, scope)
        ELSE _read_claude_export(conversations_raw.xs, yr, scope, local_offset)

\* read_export, given what json.loads returned for conversations.json
read_export(data, yr, scope, local_offset) ==
    LET conversations_raw == _load_conversations_json(data)
    IN  IF IsRaise(conversations_raw) THEN conversations_raw
        ELSE IF _detect_export_source(conversations_raw.xs) = "claude"
            THEN _read_claude_export(conversations_raw.xs, yr, scope, local_offset)
        ELSE _read_chatgpt_export(conversations_raw.xs, yr, scope)

----------------------------------------------------------------------------
(* analyze.py *)

\* Text is a sequence of code points.  A compiled pattern is a tree of
\* character sets, \b, concatenations and greedy repetitions (hi = -1: no
\* upper limit); ReEnds lists the positions at which a match that starts
\* after the first i characters may end, in the order in which the
\* backtracking matcher of re tries them, so that its head is the end of the
\* match re finds there.
ReSet(cs) == [k |-> "set", cs |-> cs]
ReNot(cs) == [k |-> "not", cs |-> cs]
ReWordBoundary == [k |-> "b"]
ReCat(xs) == [k |-> "cat", xs |-> xs]
ReRep(r, lo, hi) == [k |-> "rep", r |-> r, lo |-> lo, hi |-> hi]
ReOpt(r) == ReRep(r, 0, 1)

AsciiDigits == 48..57
AsciiUpper == 65..90
AsciiLower == 97..122
AsciiLetters == AsciiUpper \cup AsciiLower
AsciiAlnum == AsciiLetters \cup AsciiDigits

\* \w, and \b between the characters i and i + 1 of s
IsWordChar(c) == c \in AsciiAlnum \cup {95}

AtWordBoundary(s, i) ==
    (i > 0 /\ IsWordChar(s[i])) # (i < Len(s) /\ IsWordChar(s[i + 1]))

RECURSIVE ReEnds(_, _, _)
RECURSIVE ReEndsFrom(_, _, _)
RECURSIVE ReCatEnds(_, _, _)
RECURSIVE ReRepEndsFrom(_, _, _, _, _)

ReEnds(re, s, i) ==
    CASE re.k = "set" -> IF i < Len(s) /\ s[i + 1] \in re.cs THEN <<i + 1>> ELSE <<>>
      [] re.k = "not" -> IF i < Len(s) /\ s[i + 1] \notin re.cs THEN <<i + 1>> ELSE <<>>
      [] re.k = "b"   -> IF AtWordBoundary(s, i) THEN <<i>> ELSE <<>>
      [] re.k = "cat" -> ReCatEnds(re.xs, s, <<i>>)
      [] re.k = "rep" /\ re.r.k \in {"set", "not"} ->
            \* a run of single characters: the longest first
            LET stops == {j \in i..Len(s) : j = Len(s) \/ ReEnds(re.r, s, j) = <<>>}
                run == (CHOOSE j \in stops : \A k \in stops : j <= k) - i
                most == IF re.hi >= 0 /\ re.hi < run THEN re.hi ELSE run
            IN  [n \in 1..(most - re.lo + 1) |-> i + most - n + 1]
      [] re.k = "rep" ->
            (IF re.hi = 0 THEN <<>>
             ELSE ReRepEndsFrom(re.r, IF re.lo > 0 THEN re.lo - 1 ELSE 0,
                                IF re.hi > 0 THEN re.hi - 1 ELSE re.hi, s,
                                ReEnds(re.r, s, i)))
            \o (IF re.lo <= 0 THEN <<i>> ELSE <<>>)

ReEndsFrom(re, s, starts) ==
    IF starts = <<>> THEN <<>>
    ELSE ReEnds(re, s, Head(starts)) \o ReEndsFrom(re, s, Tail(starts))

ReCatEnds(xs, s, starts) ==
    IF xs = <<>> \/ starts = <<>> THEN starts
    ELSE ReCatEnds(Tail(xs), s, ReEndsFrom(Head(xs), s, starts))

ReRepEndsFrom(r, lo, hi, s, starts) ==
    IF starts = <<>> THEN <<>>
    ELSE ReEnds(ReRep(r, lo, hi), s, Head(starts)) \o ReRepEndsFrom(r, lo, hi, s, Tail(starts))

\* the positions at which the pattern matches (no pattern here matches the
\* empty string)
ReStarts(re, s) == {j \in 0..(Len(s) - 1) : ReEnds(re, s, j) # <<>>}

\* the first of these positions from i on, or -1
ReNextStart(starts, i) ==
    LET left == {j \in starts : j >= i}
    IN  IF left = {} THEN 0 - 1 ELSE CHOOSE j \in left : \A k \in left : j <= k

\* pattern.finditer(s): the matches <<start, end>> found from position i
\* on, leftmost first and not overlapping
RECURSIVE ReFindFrom(_, _, _, _)
ReFindFrom(re, s, starts, i) ==
    LET j == ReNextStart(starts, i)
    IN  IF j < 0 THEN <<>>
        ELSE << <<j, Head(ReEnds(re, s, j))>> >>
                \o ReFindFrom(re, s, starts, Head(ReEnds(re, s, j)))

ReFindIter(re, s) == ReFindFrom(re, s, ReStarts(re, s), 0)

\* pattern.sub(repl, s): the text between the matches, with repl for each
\* match
RECURSIVE ReSubFrom(_, _, _, _)
ReSubFrom(found, repl, s, i) ==
    IF found = <<>> THEN SubSeq(s, i + 1, Len(s))
    ELSE SubSeq(s, i + 1, Head(found)[1]) \o repl
            \o ReSubFrom(Tail(found), repl, s, Head(found)[2])

ReSub(re, repl, s) == ReSubFrom(ReFindIter(re, s), repl, s, 0)

\* a literal matched under re.IGNORECASE
ReLiteralIgnoreCase(lit) ==
    ReCat([i \in 1..Len(lit) |->
            ReSet(IF lit[i] \in AsciiLower THEN {lit[i], lit[i] - 32} ELSE {lit[i]})])

\* [A-Za-z0-9][A-Za-z0-9'_-]{1,}
_WORD_RE ==
    ReCat(<<ReSet(AsciiAlnum), ReRep(ReSet(AsciiAlnum \cup {39, 95, 45}), 1, -1)>>)

\* \b[A-Z0-9._%+-]+@[A-Z0-9.-]+\.[A-Z]{2,}\b with re.IGNORECASE
_EMAIL_RE ==
    ReCat(<<ReWordBoundary,
            ReRep(ReSet(AsciiAlnum \cup {46, 95, 37, 43, 45}), 1, -1),
            ReSet({64}),
            ReRep(ReSet(AsciiAlnum \cup {46, 45}), 1, -1),
            ReSet({46}),
            ReRep(ReSet(AsciiLetters), 2, -1),
            ReWordBoundary>>)

\* \bhttps?://\S+\b with re.IGNORECASE
_URL_RE ==
    ReCat(<<ReWordBoundary,
            ReLiteralIgnoreCase(<<104, 116, 116, 112>>),
            ReOpt(ReSet({115, 83})),
            ReLiteralIgnoreCase(<<58, 47, 47>>),
            ReRep(ReNot({c \in 0..160 : IsSpace(c)}), 1, -1),
            ReWordBoundary>>)

\* \b(?:\+?\d{1,3}[-. ]?)?(?:\(?\d{2,3}\)?[-. ]?)?\d{3}[-. ]?\d{4}\b
_PHONE_RE ==
    LET digit == ReSet(AsciiDigits)
        sep == ReOpt(ReSet({45, 46, 32}))
    IN  ReCat(<<ReWordBoundary,
                ReOpt(ReCat(<<ReOpt(ReSet({43})), ReRep(digit, 1, 3), sep>>)),
                ReOpt(ReCat(<<ReOpt(ReSet({40})), ReRep(digit, 2, 3), ReOpt(ReSet({41})), sep>>)),
                ReRep(digit, 3, 3), sep, ReRep(digit, 4, 4),
                ReWordBoundary>>)

_STOPWORDS ==
    {<<97>>, <<97, 110>>, <<97, 110, 100>>, <<97, 114, 101>>, <<97, 115>>, <<97, 116>>,
     <<98, 101>>, <<98, 117, 116>>, <<98, 121>>, <<99, 97, 110>>, <<100, 111>>,
     <<102, 111, 114>>, <<102, 114, 111, 109>>, <<104, 97, 118, 101>>,
     <<104, 111, 119>>, <<105>>, <<105, 102>>, <<105, 110>>, <<105, 115>>,
     <<105, 116>>, <<106, 117, 115, 116>>, <<108, 105, 107, 101>>, <<109, 101>>,
     <<109, 121>>, <<110, 111, 116>>, <<111, 102>>, <<111, 110>>, <<111, 114>>,
     <<112, 108, 101, 97, 115, 101>>, <<115, 111>>, <<116, 104, 97, 116>>,
     <<116, 104, 101>>, <<116, 104, 101, 105, 114>>, <<116, 104, 101, 109>>,
     <<116, 104, 101, 110>>, <<116, 104, 101, 114, 101>>, <<116, 104, 101, 115, 101>>,
     <<116, 104, 101, 121>>, <<116, 104, 105, 115>>, <<116, 111>>, <<119, 101>>,
     <<119, 104, 97, 116>>, <<119, 104, 101, 110>>, <<119, 104, 101, 114, 101>>,
     <<119, 104, 105, 99, 104>>, <<119, 105, 116, 104>>, <<119, 111, 117, 108, 100>>,
     <<121, 111, 117>>, <<121, 111, 117, 114>>}

\* str.lower() and str.isdigit() of a match of _WORD_RE
Lower(s) == [i \in 1..Len(s) |-> IF s[i] \in AsciiUpper THEN s[i] + 32 ELSE s[i]]

IsDigitStr(w) == w # <<>> /\ \A i \in 1..Len(w) : w[i] \in AsciiDigits

KeepsWord(w) == w \notin _STOPWORDS /\ ~IsDigitStr(w)

\* a tokenizer that turns the words to lower case after it has filtered them
TokenizeThenLower(text) ==
    LET found == ReFindIter(_WORD_RE, text)
        words == [i \in 1..Len(found) |-> SubSeq(text, found[i][1] + 1, found[i][2])]
        kept == SelectSeq(words, KeepsWord)
    IN  [i \in 1..Len(kept) |-> Lower(kept[i])]

_tokenize(text) ==
    LET found == ReFindIter(_WORD_RE, text)
        words == [i \in 1..Len(found) |-> Lower(SubSeq(text, found[i][1] + 1, found[i][2]))]
    IN  SelectSeq(words, KeepsWord)

_bigrams(tokens) == [i \in 1..(Len(tokens) - 1) |-> tokens[i] \o <<32>> \o tokens[i + 1]]

s_redacted_email == <<91, 114, 101, 100, 97, 99, 116, 101, 100, 45, 101, 109, 97, 105, 108, 93>>
s_redacted_url == <<91, 114, 101, 100, 97, 99, 116, 101, 100, 45, 117, 114, 108, 93>>
s_redacted_phone == <<91, 114, 101, 100, 97, 99, 116, 101, 100, 45, 112, 104, 111, 110, 101, 93>>

_redact(text) ==
    ReSub(_PHONE_RE, s_redacted_phone,
          ReSub(_URL_RE, s_redacted_url, ReSub(_EMAIL_RE, s_redacted_email, text)))

\* _compute_longest_streak, a date being its number of days since 1970-01-01
RECURSIVE InsertDay(_, _)
InsertDay(sorted, d) ==
    IF sorted = <<>> THEN <<d>>
    ELSE IF d = Head(sorted) THEN sorted
    ELSE IF d < Head(sorted) THEN <<d>> \o sorted
    ELSE <<Head(sorted)>> \o InsertDay(Tail(sorted), d)

\* sorted(set(days))
RECURSIVE SortedSetOfDays(_, _)
SortedSetOfDays(sorted, days) ==
    IF days = <<>> THEN sorted
    ELSE SortedSetOfDays(InsertDay(sorted, Head(days)), Tail(days))

\* the loop without its else branch: current is never set back to 1
RECURSIVE StreakLoopNeverReset(_, _, _, _)
StreakLoopNeverReset(days_sorted, i, current, best) ==
    IF i >= Len(days_sorted) THEN best
    ELSE IF days_sorted[i + 1] - days_sorted[i] = 1
        THEN StreakLoopNeverReset(days_sorted, i + 1, current + 1,
                                  IF current + 1 > best THEN current + 1 ELSE best)
    ELSE StreakLoopNeverReset(days_sorted, i + 1, current, best)

\* the loop over zip(days_sorted, days_sorted[1:]), from its i-th pair on
RECURSIVE StreakLoop(_, _, _, _)
StreakLoop(days_sorted, i, current, best) ==
    IF i >= Len(days_sorted) THEN best
    ELSE IF days_sorted[i + 1] - days_sorted[i] = 1
        THEN StreakLoop(days_sorted, i + 1, current + 1,
                        IF current + 1 > best THEN current + 1 ELSE best)
    ELSE StreakLoop(days_sorted, i + 1, 1, best)

_compute_longest_streak(days) ==
    IF days = <<>> THEN 0
    ELSE StreakLoop(SortedSetOfDays(<<>>, days), 1, 1, 1)

\* A Counter (and a dict): its items <<key, count>> in insertion order
CounterKeys(counter) == {counter[i][1] : i \in 1..Len(counter)}

\* counter[key]: 0 for a key that is absent
CounterGet(counter, key) ==
    IF \E i \in 1..Len(counter) : counter[i][1] = key
    THEN LET i == CHOOSE j \in 1..Len(counter) : counter[j][1] = key IN counter[i][2]
    ELSE 0

\* a variant that assigns 1 where the code adds 1
CounterAssign(counter, key) ==
    IF \E i \in 1..Len(counter) : counter[i][1] = key
    THEN [i \in 1..Len(counter) |->
            IF counter[i][1] = key THEN <<key, 1>> ELSE counter[i]]
    ELSE Append(counter, <<key, 1>>)

\* counter[key] += 1
CounterAdd(counter, key) ==
    IF \E i \in 1..Len(counter) : counter[i][1] = key
    THEN [i \in 1..Len(counter) |->
            IF counter[i][1] = key THEN <<key, counter[i][2] + 1>> ELSE counter[i]]
    ELSE Append(counter, <<key, 1>>)

\* the Counter after counter[key] += 1 for each key in turn
RECURSIVE CountKeys(_, _)
CountKeys(counter, keys) ==
    IF keys = <<>> THEN counter
    ELSE CountKeys(CounterAdd(counter, Head(keys)), Tail(keys))

\* sum(counter.values())
RECURSIVE CounterTotal(_)
CounterTotal(counter) ==
    IF counter = <<>> THEN 0 ELSE Head(counter)[2] + CounterTotal(Tail(counter))

\* f"{n:0{width}d}" for n >= 0
RECURSIVE ZeroPad(_, _)
ZeroPad(digits, width) ==
    IF Len(digits) >= width THEN digits ELSE ZeroPad(<<48>> \o digits, width)

\* _month_key: f"{dt.year:04d}-{dt.month:02d}"
_month_key(dt) == ZeroPad(DecStr(YearOf(dt)), 4) \o <<45>> \o ZeroPad(DecStr(MonthOf(dt)), 2)

WeekdayNames == << <<77, 111, 110>>, <<84, 117, 101>>, <<87, 101, 100>>, <<84, 104, 117>>,
                   <<70, 114, 105>>, <<83, 97, 116>>, <<83, 117, 110>> >>

\* _weekday_key
_weekday_key(dt) == WeekdayNames[WeekdayOf(dt) + 1]

\* m.created_at.astimezone(): the wall clock of the system's zone
LocalDt(dt, local_offset) == DtShift(dt, local_offset)

\* local_dt.date().isoformat()
DateIso(dt) ==
    LET c == CivilFromDays(dt.d)
    IN  ZeroPad(DecStr(c.y), 4) \o <<45>> \o ZeroPad(DecStr(c.m), 2) \o <<45>>
            \o ZeroPad(DecStr(c.d), 2)

\* local_dt.hour
HourOf(dt) == dt.s \div 3600

\* an insertion that puts the larger key first
RECURSIVE InsertByKeyDescending(_, _)
InsertByKeyDescending(sorted, item) ==
    IF sorted = <<>> THEN <<item>>
    ELSE IF StrLess(Head(sorted)[1], item[1]) THEN <<item>> \o sorted
    ELSE <<Head(sorted)>> \o InsertByKeyDescending(Tail(sorted), item)

\* sorted(counter.items(), key=lambda kv: kv[0]), a stable insertion sort
RECURSIVE InsertByKey(_, _)
InsertByKey(sorted, item) ==
    IF sorted = <<>> THEN <<item>>
    ELSE IF StrLess(item[1], Head(sorted)[1]) THEN <<item>> \o sorted
    ELSE <<Head(sorted)>> \o InsertByKey(Tail(sorted), item)

RECURSIVE SortByKey(_, _)
SortByKey(sorted, items) ==
    IF items = <<>> THEN sorted ELSE SortByKey(InsertByKey(sorted, Head(items)), Tail(items))

\* an insertion that puts an item before the items of the same count
RECURSIVE InsertByCountBeforeEqual(_, _)
InsertByCountBeforeEqual(sorted, item) ==
    IF sorted = <<>> THEN <<item>>
    ELSE IF item[2] >= Head(sorted)[2] THEN <<item>> \o sorted
    ELSE <<Head(sorted)>> \o InsertByCountBeforeEqual(Tail(sorted), item)

\* Counter.most_common(limit): by count, largest first; equal counts stay
\* in the order they were first counted
RECURSIVE InsertByCount(_, _)
InsertByCount(sorted, item) ==
    IF sorted = <<>> THEN <<item>>
    ELSE IF item[2] > Head(sorted)[2] THEN <<item>> \o sorted
    ELSE <<Head(sorted)>> \o InsertByCount(Tail(sorted), item)

RECURSIVE SortByCount(_, _)
SortByCount(sorted, items) ==
    IF items = <<>> THEN sorted
    ELSE SortByCount(InsertByCount(sorted, Head(items)), Tail(items))

most_common(counter, limit) ==
    LET ranked == SortByCount(<<>>, counter)
    IN  SubSeq(ranked, 1, IF Len(ranked) < limit THEN Len(ranked) ELSE limit)

HasKeyText(item) == item[1] # <<>>

\* _sorted_counter: the limit is applied before the empty key is dropped
_sorted_counter(counter, limit) == SelectSeq(most_common(counter, limit), HasKeyText)

TopTitlesLimit == 15
TopModelsLimit == 10
LongestConversationsLimit == 10

IsUser(m) == m.role = JStr(s_user)
IsAssistant(m) == m.role = JStr(s_assistant)
HasModel(m) == Truthy(m.model)

\* m.conversation_title or "Untitled"
TitleKey(m) == IF m.conversation_title # <<>> THEN m.conversation_title ELSE s_Untitled

\* the Counters summarize fills in its loop over the messages (lines
\* 175-188)
MonthCounter(messages) ==
    CountKeys(<<>>, [i \in 1..Len(messages) |-> _month_key(messages[i].created_at)])

WeekdayCounter(messages) ==
    CountKeys(<<>>, [i \in 1..Len(messages) |-> _weekday_key(messages[i].created_at)])

DayLocalCounter(messages, local_offset) ==
    CountKeys(<<>>, [i \in 1..Len(messages) |->
                        DateIso(LocalDt(messages[i].created_at, local_offset))])

HourLocalCounter(messages, local_offset) ==
    CountKeys(<<>>, [i \in 1..Len(messages) |->
                        DecStr(HourOf(LocalDt(messages[i].created_at, local_offset)))])

TitleCounter(messages) ==
    CountKeys(<<>>, [i \in 1..Len(messages) |-> TitleKey(messages[i])])

ModelCounter(messages) ==
    LET with_model == SelectSeq(messages, HasModel)
    IN  CountKeys(<<>>, [i \in 1..Len(with_model) |-> with_model[i].model.s])

\* the number of conversation records, whatever the messages are
TotalConversationsRecorded(ds) == Len(ds.conversations)

\* len(conv_ids) if conv_ids else len(dataset.conversations)
TotalConversations(ds) ==
    LET conv_ids == {ds.messages[i].conversation_id : i \in 1..Len(ds.messages)}
    IN  IF conv_ids # {} THEN Cardinality(conv_ids) ELSE Len(ds.conversations)

\* tokens = _tokenize(m.text) for each message
Tokens(messages) == [i \in 1..Len(messages) |-> _tokenize(messages[i].text)]

\* words.update(tokens) and bigrams.update(_bigrams(tokens)) for each message
\* in turn
RECURSIVE WordCounter(_, _)
WordCounter(counter, tokens) ==
    IF tokens = <<>> THEN counter
    ELSE WordCounter(CountKeys(counter, Head(tokens)), Tail(tokens))

\* a variant that pairs the tokens of all messages as one sequence
RECURSIVE JoinTokens(_)
JoinTokens(tokens) == IF tokens = <<>> THEN <<>> ELSE Head(tokens) \o JoinTokens(Tail(tokens))

BigramsAcrossMessages(counter, tokens) == CountKeys(counter, _bigrams(JoinTokens(tokens)))

RECURSIVE BigramCounter(_, _)
BigramCounter(counter, tokens) ==
    IF tokens = <<>> THEN counter
    ELSE BigramCounter(CountKeys(counter, _bigrams(Head(tokens))), Tail(tokens))

TopWordsLimit == 30
TopBigramsLimit == 30

\* the local dates of active_day_set; a set has no order of its own, and
\* _compute_longest_streak sorts what it is given
ActiveDays(messages, local_offset) ==
    [i \in 1..Len(messages) |-> LocalDt(messages[i].created_at, local_offset).d]

\* m.created_at.isoformat() of a UTC datetime of whole seconds
IsoFormat(dt) ==
    DateIso(dt) \o <<84>> \o ZeroPad(DecStr(dt.s \div 3600), 2) \o <<58>>
        \o ZeroPad(DecStr((dt.s % 3600) \div 60), 2) \o <<58>>
        \o ZeroPad(DecStr(dt.s % 60), 2) \o <<43, 48, 48, 58, 48, 48>>

\* the first index of c in s, or 0
IndexOf(s, c) ==
    LET at == {i \in 1..Len(s) : s[i] = c}
    IN  IF at = {} THEN 0 ELSE CHOOSE i \in at : \A k \in at : i <= k

\* .replace("\r\n", "\n").replace("\r", "\n")
RECURSIVE NormalizeNewlines(_)
NormalizeNewlines(s) ==
    LET p == IndexOf(s, 13)
    IN  IF p = 0 THEN s
        ELSE SubSeq(s, 1, p - 1) \o <<10>>
                \o NormalizeNewlines(SubSeq(s, IF p < Len(s) /\ s[p + 1] = 10 THEN p + 2
                                               ELSE p + 1, Len(s)))

\* s.split("\n")
RECURSIVE SplitLines(_)
SplitLines(s) ==
    LET p == IndexOf(s, 10)
    IN  IF p = 0 THEN <<s>>
        ELSE <<SubSeq(s, 1, p - 1)>> \o SplitLines(SubSeq(s, p + 1, Len(s)))

NonBlank(line) == Strip(line) # <<>>

ExcerptLimit == 360
s_ellipsis == <<8230>>

\* the text of the excerpt of one message (lines 203-207)
Snippet(text, redact_flag) ==
    LET lines == SelectSeq(SplitLines(NormalizeNewlines(Strip(text))), NonBlank)
        joined == JoinLines([i \in 1..Len(lines) |-> Strip(lines[i])])
        cut == IF Len(joined) > ExcerptLimit
               THEN SubSeq(joined, 1, ExcerptLimit) \o s_ellipsis ELSE joined
    IN  IF redact_flag THEN _redact(cut) ELSE cut

Excerpt(conversation_id, title, created_at_iso, role, text) ==
    [conversation_id |-> conversation_id, title |-> title,
     created_at_iso |-> created_at_iso, role |-> role, text |-> text]

\* seq[:n]
SliceTo(seq, n) ==
    IF n >= 0 THEN SubSeq(seq, 1, IF n < Len(seq) THEN n ELSE Len(seq))
    ELSE SubSeq(seq, 1, Len(seq) + n)

\* the loop over messages[: max_excerpts * 2] (lines 202-219), window being
\* what is left of the slice
RECURSIVE ExcerptLoop(_, _, _, _)
ExcerptLoop(excerpts, window, redact_flag, limit) ==
    IF window = <<>> THEN excerpts
    ELSE LET m == Head(window)
             snippet == Snippet(m.text, redact_flag)
             after == IF snippet # <<>>
                      THEN Append(excerpts,
                                  Excerpt(m.conversation_id, TitleKey(m),
                                          IsoFormat(m.created_at), m.role, snippet))
                      ELSE excerpts
         IN  IF Len(after) >= limit THEN after
             ELSE ExcerptLoop(after, Tail(window), redact_flag, limit)

\* the loop over messages[: max_excerpts], with no message to spare
ExcerptsWithoutLookahead(messages, redact_flag, limit) ==
    ExcerptLoop(<<>>, SliceTo(messages, limit), redact_flag, limit)

Excerpts(messages, redact_flag, limit) ==
    ExcerptLoop(<<>>, SliceTo(messages, limit * 2), redact_flag, limit)

\* a variant that counts the messages of each conversation_id and names the
\* count by the title of the conversation's first message
ConvMessageCounterById(messages) ==
    LET by_id == CountKeys(<<>>, [i \in 1..Len(messages) |-> messages[i].conversation_id])
        first(id) == CHOOSE i \in 1..Len(messages) :
                        /\ messages[i].conversation_id = id
                        /\ \A j \in 1..(i - 1) : messages[j].conversation_id # id
    IN  [n \in 1..Len(by_id) |-> <<TitleKey(messages[first(by_id[n][1])]), by_id[n][2]>>]

\* conv_message_counts[m.conversation_title or "Untitled"] += 1 (line 187)
ConvMessageCounter(messages) ==
    CountKeys(<<>>, [i \in 1..Len(messages) |-> TitleKey(messages[i])])

\* total_words / total_messages as a fraction in lowest terms, 0.0 being 0/1
RECURSIVE Gcd(_, _)
Gcd(a, b) == IF b = 0 THEN a ELSE Gcd(b, a % b)

Fraction(n, d) == [num |-> n \div Gcd(n, d), den |-> d \div Gcd(n, d)]

WordsPerMessage(total_words, total_messages) ==
    IF total_messages # 0 THEN Fraction(total_words, total_messages) ELSE Fraction(0, 1)

\* a variant that returns the last of the items with the highest count
MaxItemLast(counter) ==
    LET i == CHOOSE k \in 1..Len(counter) :
                 /\ \A j \in 1..Len(counter) : counter[j][2] <= counter[k][2]
                 /\ \A j \in (k + 1)..Len(counter) : counter[j][2] < counter[k][2]
    IN  counter[i]

\* max(counter.items(), key=lambda kv: kv[1]): the first item, in the order
\* of insertion, whose count no other count exceeds
MaxItem(counter) ==
    LET i == CHOOSE k \in 1..Len(counter) :
                 /\ \A j \in 1..Len(counter) : counter[j][2] <= counter[k][2]
                 /\ \A j \in 1..(k - 1) : counter[j][2] < counter[k][2]
    IN  counter[i]

\* int(hour_key) of a string of decimal digits
RECURSIVE ParseInt(_)
ParseInt(digits) ==
    IF digits = <<>> THEN 0
    ELSE 10 * ParseInt(SubSeq(digits, 1, Len(digits) - 1)) + (digits[Len(digits)] - 48)

\* _top_key: counter.most_common(1)[0][0] if counter else None
_top_key(counter) == IF counter # <<>> THEN JStr(most_common(counter, 1)[1][1]) ELSE Null

s_most_chatty_month == <<77, 111, 115, 116, 32, 99, 104, 97, 116, 116, 121, 32, 109, 111, 110, 116, 104, 58, 32>>
s_favorite_weekday == <<70, 97, 118, 111, 114, 105, 116, 101, 32, 119, 101, 101, 107, 100, 97, 121, 58, 32>>
s_peak_hour == <<80, 101, 97, 107, 32, 104, 111, 117, 114, 32, 40, 108, 111, 99, 97, 108, 41, 58, 32>>
s_busiest_day == <<66, 117, 115, 105, 101, 115, 116, 32, 100, 97, 121, 58, 32>>
s_messages == <<32, 109, 101, 115, 115, 97, 103, 101, 115, 41>>
s_longest_streak == <<76, 111, 110, 103, 101, 115, 116, 32, 115, 116, 114, 101, 97, 107, 58, 32>>
s_days == <<32, 100, 97, 121, 115>>

\* fun facts that stand in the list whether or not the statistic exists
FunFactsWithPlaceholders(top_month, top_weekday, busiest_hour_local, busiest_day_local, busiest_day_messages, longest_streak) ==
    <<s_most_chatty_month \o (IF Truthy(top_month) THEN top_month.s ELSE s_None),
      s_favorite_weekday \o (IF Truthy(top_weekday) THEN top_weekday.s ELSE s_None),
      s_longest_streak \o DecStr(longest_streak) \o s_days>>

\* the fun facts (lines 244-256), each appended when its statistic exists
FunFacts(top_month, top_weekday, busiest_hour_local, busiest_day_local, busiest_day_messages, longest_streak) ==
    (IF Truthy(top_month) THEN <<s_most_chatty_month \o top_month.s>> ELSE <<>>)
    \o (IF Truthy(top_weekday) THEN <<s_favorite_weekday \o top_weekday.s>> ELSE <<>>)
    \o (IF busiest_hour_local # Null
        THEN <<s_peak_hour \o ZeroPad(DecStr(busiest_hour_local.n), 2) \o <<58, 48, 48>>>>
        ELSE <<>>)
    \o (IF Truthy(busiest_day_local)
        THEN <<s_busiest_day \o busiest_day_local.s \o <<32, 40>>
                 \o DecStr(busiest_day_messages) \o s_messages>>
        ELSE <<>>)
    \o (IF longest_streak # 0
        THEN <<s_longest_streak \o DecStr(longest_streak) \o s_days>> ELSE <<>>)

\* a variant in which summarize takes the messages out of the list it is
\* given
DatasetConsumed(ds) == [ds EXCEPT !.messages = <<>>]

\* the Dataset after summarize(dataset, ...): summarize reads
\* dataset.messages and dataset.conversations (lines 152-159, 175, 202) and
\* assigns to neither, nor to a field of a Message
DatasetAfterSummarize(ds) == ds

\* summarize (lines 151-286)
summarize(ds, yr, local_offset, redact_flag, limit) ==
    LET messages == ds.messages
        month == MonthCounter(messages)
        day_local == DayLocalCounter(messages, local_offset)
        weekday == WeekdayCounter(messages)
        hour_local == HourLocalCounter(messages, local_offset)
        titles == TitleCounter(messages)
        tokens == Tokens(messages)
        words == WordCounter(<<>>, tokens)
        total_words == CounterTotal(words)
        longest_streak == _compute_longest_streak(ActiveDays(messages, local_offset))
        busiest_day_local == IF day_local # <<>> THEN JStr(MaxItem(day_local)[1]) ELSE Null
        busiest_day_messages == IF day_local # <<>> THEN MaxItem(day_local)[2] ELSE 0
        busiest_hour_local ==
            IF hour_local # <<>> THEN JNum(ParseInt(MaxItem(hour_local)[1])) ELSE Null
    IN  [t |-> "summary",
         year |-> yr,
         total_conversations |-> TotalConversations(ds),
         total_messages |-> Len(messages),
         total_user_messages |-> Len(SelectSeq(messages, IsUser)),
         total_assistant_messages |-> Len(SelectSeq(messages, IsAssistant)),
         total_words |-> total_words,
         words_per_message |-> WordsPerMessage(total_words, Len(messages)),
         first_message |-> IF messages = <<>> THEN Null ELSE messages[1].created_at,
         last_message |-> IF messages = <<>> THEN Null ELSE messages[Len(messages)].created_at,
         active_days |-> Len(day_local),
         longest_streak_days |-> longest_streak,
         busiest_day_local |-> busiest_day_local,
         busiest_day_messages |-> busiest_day_messages,
         busiest_hour_local |-> busiest_hour_local,
         busiest_hour_messages |-> IF hour_local # <<>> THEN MaxItem(hour_local)[2] ELSE 0,
         messages_by_month |-> SortByKey(<<>>, month),
         messages_by_day_local |-> SortByKey(<<>>, day_local),
         messages_by_weekday |->
            [i \in 1..7 |-> <<WeekdayNames[i], CounterGet(weekday, WeekdayNames[i])>>],
         messages_by_hour_local |->
            [i \in 1..24 |-> <<DecStr(i - 1), CounterGet(hour_local, DecStr(i - 1))>>],
         top_words |-> _sorted_counter(words, TopWordsLimit),
         top_bigrams |-> _sorted_counter(BigramCounter(<<>>, tokens), TopBigramsLimit),
         top_titles |-> _sorted_counter(titles, TopTitlesLimit),
         top_models |-> _sorted_counter(ModelCounter(messages), TopModelsLimit),
         longest_conversations |->
            _sorted_counter(ConvMessageCounter(messages), LongestConversationsLimit),
         excerpts |-> Excerpts(messages, redact_flag, limit),
         fun_facts |-> FunFacts(_top_key(month), _top_key(weekday), busiest_hour_local,
                                busiest_day_local, busiest_day_messages, longest_streak)]

----------------------------------------------------------------------------
(* The inputs the checks draw from *)

\* a dict literal with optional keys: With(o, k, Omit) leaves k out
Omit == [t |-> "omit"]
With(o, k, v) == IF v = Omit THEN o ELSE (k :> v) @@ o
EmptyDict == [t |-> "obj"]

SeqsUpTo(S, n) == UNION {[1..k -> S] : k \in 0..n}

s_a == <<97>>
s_b == <<98>>
s_c1 == <<99, 49>>
s_c2 == <<99, 50>>
s_T1 == <<84, 49>>
s_hi == <<104, 105>>
s_yo == <<121, 111>>
s_x == <<120>>
s_gpt4 == <<103, 112, 116, 45, 52>>

\* epoch seconds of 2023-12-31T23:59:59Z, 2024-01-01T00:00:00Z and
\* 2024-01-02T09:00:00Z
Ts2023 == DaysFromCivil(2024, 1, 1) * SecondsPerDay - 1
Ts2024a == DaysFromCivil(2024, 1, 1) * SecondsPerDay
Ts2024b == DaysFromCivil(2024, 1, 2) * SecondsPerDay + 9 * 3600

Years == {Null, JNum(2024)}
RoleScopes == {{s_user, s_assistant}, {s_user}, {s_user, s_assistant, s_unknown}}
LocalOffsets == {0 - 5 * 3600, 3600}

(* ChatGPT-shaped records *)

TextContent(parts) == [t |-> "obj", content_type |-> JStr(s_text), parts |-> JList(parts)]
MultimodalContent(parts) ==
    [t |-> "obj", content_type |-> JStr(s_multimodal_text), parts |-> JList(parts)]
ImagePart == [t |-> "obj", asset_pointer |-> JStr(s_x)]
Author(role) == [t |-> "obj", role |-> role]

ChatgptMsg(id, author, create_time, content, metadata) ==
    With(With(With(With(With(EmptyDict, "id", id), "author", author),
        "create_time", create_time), "content", content), "metadata", metadata)

Node(message) == With(EmptyDict, "message", message)

ChatgptConv(id, title, create_time, mapping) ==
    With(With(With(With(EmptyDict, "id", id), "title", title),
        "create_time", create_time), "mapping", mapping)

ChatgptTimes == {Omit, JStr(s_x), JStr(DecStr(Ts2024a)), JNum(Ts2023), JNum(Ts2024a),
                 JBig, JNaN}
ChatgptAuthors == {Omit, Author(JStr(s_user)), Author(JStr(s_assistant)),
                   Author(JStr(s_system)), Author(Null)}
ChatgptContents == {Null, TextContent(<<JStr(s_hi)>>), TextContent(<<JStr(<<32>>)>>),
                    TextContent(<<Null>>), TextContent(<<JStr(s_hi), Null, JNum(5)>>),
                    MultimodalContent(<<JStr(s_hi), ImagePart>>),
                    MultimodalContent(<<ImagePart>>),
                    [t |-> "obj", content_type |-> JStr(s_code), parts |-> JList(<<JStr(s_hi)>>)]}
ChatgptIds == {Omit, JStr(s_a)}

\* every combination of the fields of one message, and the nodes that carry
\* no message payload
ChatgptSingleNodes ==
    {Node(ChatgptMsg(id, au, ts, co, Omit)) :
        id \in ChatgptIds, au \in ChatgptAuthors, ts \in ChatgptTimes, co \in ChatgptContents}
    \cup {Null, EmptyDict, Node(Null), Node(JStr(s_hi)), Node(EmptyDict)}

GptA == Node(ChatgptMsg(JStr(s_a), Author(JStr(s_user)), JNum(Ts2024a),
                        TextContent(<<JStr(s_hi)>>), Omit))
GptB == Node(ChatgptMsg(JStr(s_b), Author(JStr(s_assistant)), JNum(Ts2024a),
                        TextContent(<<JStr(s_yo)>>),
                        [t |-> "obj", model_slug |-> JStr(s_gpt4)]))
GptC == Node(ChatgptMsg(JStr(s_a), Author(JStr(s_user)), JNum(Ts2023),
                        TextContent(<<JStr(s_hi), JStr(s_yo)>>), Omit))
GptD == Node(ChatgptMsg(Omit, Omit, JNum(Ts2024b), TextContent(<<JStr(s_yo)>>),
                        [t |-> "obj", model |-> JStr(<<32>>), model_name |-> JStr(s_gpt4)]))

ChatgptMultiConvs ==
    {ChatgptConv(JStr(s_c1), JStr(s_T1), JNum(Ts2023), JMap(nodes)) :
        nodes \in {<<GptA, GptC>>, <<GptA, GptA>>, <<GptD, Node(Null), GptB>>}}
    \cup {ChatgptConv(JStr(s_c2), Omit, Omit, JMap(<<GptB, GptA>>)),
          ChatgptConv(JStr(s_c2), Omit, Omit, Null),
          ChatgptConv(Omit, JStr(s_T1), Omit, JMap(<<GptB, GptA>>)),
          ChatgptConv(JStr(s_c2), Null, JBig, JMap(<<GptA>>))}

(* Claude-shaped records *)

Iso(y, mo, day, h, mi, sec, zone, off) ==
    [t |-> "iso", y |-> y, mo |-> mo, day |-> day, h |-> h, mi |-> mi, sec |-> sec,
     zone |-> zone, off |-> off]

ClaudeMsg(uuid, sender, created_at, text, content) ==
    With(With(With(With(With(EmptyDict, "uuid", uuid), "sender", sender),
        "created_at", created_at), "text", text), "content", content)

ClaudeConv(uuid, name, created_at, chat_messages) ==
    With(With(With(With(EmptyDict, "uuid", uuid), "name", name),
        "created_at", created_at), "chat_messages", chat_messages)

Iso2023 == Iso(2023, 12, 31, 23, 30, 0, "Z", 0)
\* 2024-01-01T00:30:00+01:00, which is 2023-12-31T23:30:00Z
Iso2024East == Iso(2024, 1, 1, 0, 30, 0, "offset", 3600)
Iso2024a == Iso(2024, 1, 1, 0, 0, 0, "Z", 0)
Iso2024b == Iso(2024, 1, 2, 9, 0, 0, "Z", 0)
Iso2024Naive == Iso(2024, 1, 1, 0, 30, 0, "naive", 0)
IsoYearOne == Iso(1, 1, 1, 0, 0, 0, "offset", 5 * 3600)
IsoMonth13 == Iso(2024, 13, 1, 0, 0, 0, "Z", 0)

ClaudeTimes == {Omit, JStr(s_x), JNum(Ts2024a), Iso2023, Iso2024East, Iso2024a,
                Iso2024Naive, IsoYearOne, IsoMonth13}
ClaudeSenders == {Omit, JStr(s_human), JStr(s_assistant), JStr(s_system), Null,
                  JList(<<JStr(s_human)>>)}
ClaudeTexts == {<<JStr(s_hi), Omit>>,
                <<JStr(<<32>>), JList(<<[t |-> "obj", text |-> JStr(s_yo)]>>)>>,
                <<Omit, Omit>>,
                <<JStr(<<>>), JList(<<[t |-> "obj", text |-> JStr(<<32>>)], Null>>)>>,
                <<Null, JList(<<[t |-> "obj", text |-> JStr(s_a)],
                                [t |-> "obj", text |-> JStr(s_b)]>>)>>}
ClaudeIds == {Omit, JStr(s_a)}

ClaudeSingleMsgs ==
    {ClaudeMsg(id, se, ts, tc[1], tc[2]) :
        id \in ClaudeIds, se \in ClaudeSenders, ts \in ClaudeTimes, tc \in ClaudeTexts}
    \cup {Null, EmptyDict}

ClA == ClaudeMsg(JStr(s_a), JStr(s_human), Iso2024a, JStr(s_hi), Omit)
ClB == ClaudeMsg(JStr(s_b), JStr(s_assistant), Iso2024a, JStr(s_yo), Omit)
ClC == ClaudeMsg(JNum(7), JStr(s_human), Iso2023, JStr(s_hi), Omit)
ClD == ClaudeMsg(Omit, JStr(s_system), Iso2024b, JStr(s_yo), Omit)

ClaudeMultiConvs ==
    {ClaudeConv(JStr(s_c1), JStr(s_T1), Iso2023, JList(msgs)) :
        msgs \in {<<ClA, ClC, Null>>, <<ClD, ClA, ClA>>}}
    \cup {ClaudeConv(JStr(s_c2), Omit, Omit, JList(<<ClB, ClA>>)),
          ClaudeConv(JStr(s_c2), Omit, Omit, Null),
          ClaudeConv(JStr(s_c2), Null, IsoYearOne, JList(<<ClA>>))}

\* what a list may hold besides conversation records
OtherElements == {JNum(1)}

MultiElements == ChatgptMultiConvs \cup ClaudeMultiConvs \cup OtherElements

\* every set of the four keys _detect_export_source looks at, and lists of
\* such records
ShapeRecords ==
    {With(With(With(With(EmptyDict, "chat_messages", cm), "uuid", uu), "mapping", mp), "id", id) :
        cm \in {Omit, JList(<<>>)}, uu \in {Omit, JStr(s_c1)},
        mp \in {Omit, JMap(<<>>)}, id \in {Omit, JStr(s_c2)}}

ShapeLists == {JList(xs) : xs \in SeqsUpTo(ShapeRecords, MaxConvs)}

\* n conversations of one message each, the i-th titled "T<i mod k>"
WideConv(i, k) ==
    ChatgptConv(JStr(<<99>> \o DecStr(i)), JStr(<<84>> \o DecStr(i % k)), Omit,
                JMap(IF i % 3 = 0 THEN <<GptB>> ELSE <<GptA>>))

WideValues == {JList([i \in 1..n |-> WideConv(i, k)]) : n \in 3..MaxWide, k \in {2, MaxWide + 1}}

\* the values json.loads may return that are not lists
NonLists == {Null, JStr(s_x), ChatgptConv(JStr(s_c1), JStr(s_T1), Omit, JMap(<<GptA>>))}

TopValues ==
    NonLists
    \cup {JList(<<ChatgptConv(JStr(s_c1), JStr(s_T1), Omit, JMap(<<n>>))>>) :
            n \in ChatgptSingleNodes}
    \cup {JList(<<ClaudeConv(JStr(s_c1), JStr(s_T1), Omit, JList(<<m>>))>>) :
            m \in ClaudeSingleMsgs}
    \cup {JList(xs) : xs \in SeqsUpTo(MultiElements, MaxConvs)}
    \cup WideValues

----------------------------------------------------------------------------
(* The run of the program: main reads the export and summarizes it *)

\* --max-excerpts when the option is not given
DefaultMaxExcerpts == 12

Init ==
    /\ top \in TopValues
    /\ year \in Years
    /\ role_scope \in RoleScopes
    /\ tz \in LocalOffsets
    /\ pc = "start"
    /\ detected = "none"
    /\ dataset = Null
    /\ summary = Null
    /\ redact = FALSE
    /\ max_excerpts = DefaultMaxExcerpts
    /\ arg = Null
    /\ result = Null
    /\ fs = Null

\* main calls read_export (cli.py line 57): it returns a Dataset or raises
ReadExport ==
    /\ pc = "start"
    /\ dataset' = read_export(top, year, role_scope, tz)
    /\ detected' = IF IsList(top)
                   THEN _detect_export_source(_load_conversations_json(top).xs)
                   ELSE "none"
    /\ pc' = IF IsRaise(dataset') THEN "failed" ELSE "ingested"
    /\ UNCHANGED <<top, year, role_scope, tz, summary, redact, max_excerpts, arg, result, fs>>

\* main calls build_report, which calls summarize (cli.py line 58, report.py
\* line 54)
Summarize ==
    /\ pc = "ingested"
    /\ summary' = summarize(dataset, year, tz, redact, max_excerpts)
    /\ dataset' = DatasetAfterSummarize(dataset)
    /\ pc' = "summarized"
    /\ UNCHANGED <<top, year, role_scope, tz, detected, redact, max_excerpts, arg, result,
                   fs>>

Next == ReadExport \/ Summarize

Spec == Init /\ [][Next]_vars

(* _detect_export_source alone, on lists of records of every shape *)

InitDetect ==
    /\ top \in ShapeLists
    /\ year = Null
    /\ role_scope = {s_user, s_assistant}
    /\ tz = 0
    /\ pc = "start"
    /\ detected = "none"
    /\ dataset = Null
    /\ summary = Null
    /\ redact = FALSE
    /\ max_excerpts = DefaultMaxExcerpts
    /\ arg = Null
    /\ result = Null
    /\ fs = Null

DetectExportSource ==
    /\ pc = "start"
    /\ detected' = _detect_export_source(top.xs)
    /\ pc' = "detected"
    /\ UNCHANGED <<top, year, role_scope, tz, dataset, summary, redact, max_excerpts, arg,
                   result, fs>>

SpecDetect == InitDetect /\ [][DetectExportSource]_vars

(* The functions of analyze.py called on their own: _compute_longest_streak,
   _tokenize and _redact on the values of a catalogue, and summarize on
   Datasets built by hand *)

MaxDays == 4
MaxDayOffset == 4
MaxTextLen == 4
MaxPieces == 3
MaxMessages == 3
MaxWords == 32

Day2024 == DaysFromCivil(2024, 1, 1)

\* lists of dates in any order, with repetitions
DayLists == SeqsUpTo({Day2024 + k : k \in 0..MaxDayOffset}, MaxDays)

\* texts over a, n, A, 1, hyphen, apostrophe and space
TokenTexts == SeqsUpTo({97, 110, 65, 49, 45, 39, 32}, MaxTextLen)

\* texts put together from an address, a URL, a phone number and what may
\* stand next to them
RECURSIVE Concat(_)
Concat(pieces) == IF pieces = <<>> THEN <<>> ELSE Head(pieces) \o Concat(Tail(pieces))

\* texts put together from words, a stop word, a number and what may stand
\* between them
TokenPieces ==
    {<<65, 110>>, <<70, 111, 120, 45>>, <<105, 116, 39, 115>>, <<49, 50>>,
     <<32, 84, 104, 101, 32>>, <<32>>, <<45>>}

TokenPhrases == {Concat(ps) : ps \in SeqsUpTo(TokenPieces, MaxPieces)}

s_email == <<97, 64, 98, 46, 99, 111>>
s_url == <<104, 116, 116, 112, 58, 47, 47, 120, 46, 99, 111>>
s_phone == <<53, 53, 53, 45, 49, 50, 51, 52>>

RedactPieces == {s_email, s_url, s_phone, <<32>>, <<120>>, <<53>>, <<47>>, <<95>>}

RedactTexts == {Concat(ps) : ps \in SeqsUpTo(RedactPieces, MaxPieces)}

\* the kinds of message of a Dataset built by hand: text, title, model, role
\* and the days gone by since the message before
s_the_fox == <<102, 111, 120, 32, 116, 104, 101, 32, 104, 105, 32, 102, 111, 120>>
s_blank == <<32, 10, 32>>
s_two_lines ==
    <<32, 104, 105, 32, 102, 111, 120, 13, 10, 13, 32, 97, 64, 98, 46, 99, 111>> \o
    <<32, 53, 53, 53, 45, 49, 50, 51, 52, 32, 10>>

MessageKind(text, title, model, role, gap) ==
    [text |-> text, title |-> title, model |-> model, role |-> role, gap |-> gap]

\* a message on the day of the one before it is written in the last hour of
\* the day, a message on a later day in the second hour
HourOfKind(kind) == IF kind.gap = 0 THEN 23 ELSE 1

MessageKinds ==
    {MessageKind(s_the_fox, <<>>, JStr(s_gpt4), s_assistant, 1),
     MessageKind(<<>>, s_T1, Null, s_user, 0),
     MessageKind(s_blank, s_T1, Null, s_user, 2),
     MessageKind(s_two_lines, s_T1, Null, s_unknown, 0)}

RECURSIVE GapsUpTo(_, _)
GapsUpTo(kinds, i) == IF i = 0 THEN 0 ELSE kinds[i].gap + GapsUpTo(kinds, i - 1)

\* Messages in the order messages.sort leaves them in
MessagesOfKinds(kinds) ==
    [i \in 1..Len(kinds) |->
        Message(IF kinds[i].title = <<>> THEN s_c2 ELSE s_c1, kinds[i].title, DecStr(i),
                JStr(kinds[i].role),
                Dt(Day2024 + GapsUpTo(kinds, i), HourOfKind(kinds[i]) * 3600 + i),
                kinds[i].text, kinds[i].model)]

\* the keys of a long table: 1, 2, ... k and back down, so that the keys
\* counted last are the ones counted twice
KeyIndex(i, k) == IF i <= k THEN i ELSE 2 * k + 1 - i

\* n messages of one word, one title and one model each, the i-th with
\* "w<j>", "T<j>" and "m<j>" for j = KeyIndex(i, k)
WideMessages(n, k) ==
    [i \in 1..n |->
        Message(s_c1, <<84>> \o DecStr(KeyIndex(i, k)), DecStr(i), JStr(s_assistant),
                Dt(Day2024, i), <<119>> \o DecStr(KeyIndex(i, k)),
                JStr(<<109>> \o DecStr(KeyIndex(i, k))))]

\* one message of n words "w<j>"
WordyMessage(n, k) ==
    Message(s_c1, s_T1, s_a, JStr(s_user), Dt(Day2024, 0),
            Concat([i \in 1..n |-> <<119>> \o DecStr(KeyIndex(i, k)) \o <<32>>]), Null)

\* one message of n exclamation marks and a tail
LongMessage(n, tail) ==
    Message(s_c1, s_T1, s_a, JStr(s_user), Dt(Day2024, 0), [i \in 1..n |-> 33] \o tail, Null)

HandMadeDatasets ==
    {Dataset(<<>>, MessagesOfKinds(kinds), "chatgpt") :
        kinds \in SeqsUpTo(MessageKinds, MaxMessages)}

WideDatasets ==
    {Dataset(<<>>, WideMessages(n, n - back), "chatgpt") :
        n \in {MaxWide - 6, MaxWide}, back \in {1, 6}}
    \cup {Dataset(<<>>, <<WordyMessage(MaxWords, MaxWords - back)>>, "chatgpt") :
            back \in {1, 6}}

LongDatasets ==
    {Dataset(<<>>, <<LongMessage(ExcerptLimit - n, tail)>>, "chatgpt") :
        n \in {0 - 1, 0, Len(s_email) - 1, Len(s_email)}, tail \in {<<>>, s_email}}

InitStreak ==
    /\ arg \in {[f |-> "_compute_longest_streak", x |-> days] : days \in DayLists}
    /\ pc = "call"
    /\ top = Null /\ year = Null /\ role_scope = {s_user, s_assistant} /\ tz = 0
    /\ detected = "none" /\ dataset = Null /\ summary = Null
    /\ redact = FALSE /\ max_excerpts = DefaultMaxExcerpts /\ result = Null
    /\ fs = Null

InitTokenize ==
    /\ arg \in {[f |-> "_tokenize", x |-> text] : text \in TokenTexts \cup TokenPhrases}
    /\ pc = "call"
    /\ top = Null /\ year = Null /\ role_scope = {s_user, s_assistant} /\ tz = 0
    /\ detected = "none" /\ dataset = Null /\ summary = Null
    /\ redact = FALSE /\ max_excerpts = DefaultMaxExcerpts /\ result = Null
    /\ fs = Null

InitRedact ==
    /\ arg \in {[f |-> "_redact", x |-> text] : text \in RedactTexts}
    /\ pc = "call"
    /\ top = Null /\ year = Null /\ role_scope = {s_user, s_assistant} /\ tz = 0
    /\ detected = "none" /\ dataset = Null /\ summary = Null
    /\ redact = FALSE /\ max_excerpts = DefaultMaxExcerpts /\ result = Null
    /\ fs = Null

InitSummarize ==
    /\ \/ /\ dataset \in HandMadeDatasets
          /\ max_excerpts \in 0..(MaxMessages - 1)
          /\ tz \in LocalOffsets
       \/ /\ dataset \in WideDatasets \cup LongDatasets
          /\ max_excerpts \in {1, DefaultMaxExcerpts}
          /\ tz = 3600
    /\ redact \in BOOLEAN
    /\ pc = "ingested"
    /\ top = Null /\ year = Null /\ role_scope = {s_user, s_assistant, s_unknown}
    /\ detected = "none" /\ summary = Null /\ arg = Null /\ result = Null
    /\ fs = Null

InitFunctions == InitStreak \/ InitTokenize \/ InitRedact \/ InitSummarize

ComputeLongestStreak ==
    /\ pc = "call" /\ arg.f = "_compute_longest_streak"
    /\ result' = _compute_longest_streak(arg.x)
    /\ pc' = "returned"
    /\ UNCHANGED <<top, year, role_scope, tz, detected, dataset, summary, redact,
                   max_excerpts, arg, fs>>

Tokenize ==
    /\ pc = "call" /\ arg.f = "_tokenize"
    /\ result' = _tokenize(arg.x)
    /\ pc' = "returned"
    /\ UNCHANGED <<top, year, role_scope, tz, detected, dataset, summary, redact,
                   max_excerpts, arg, fs>>

Redact ==
    /\ pc = "call" /\ arg.f = "_redact"
    /\ result' = _redact(arg.x)
    /\ pc' = "returned"
    /\ UNCHANGED <<top, year, role_scope, tz, detected, dataset, summary, redact,
                   max_excerpts, arg, fs>>

\* summarize called once more on the Dataset the first call was given, with
\* the same options and the same local time zone
SummarizeAgain ==
    /\ pc = "summarized"
    /\ result' = summarize(dataset, year, tz, redact, max_excerpts)
    /\ dataset' = DatasetAfterSummarize(dataset)
    /\ pc' = "summarized again"
    /\ UNCHANGED <<top, year, role_scope, tz, detected, summary, redact, max_excerpts, arg,
                   fs>>

NextFunctions == ComputeLongestStreak \/ Tokenize \/ Redact \/ Summarize \/ SummarizeAgain

SpecFunctions == InitFunctions /\ [][NextFunctions]_vars

----------------------------------------------------------------------------
(* main on the paths it is given (cli.py lines 52-75): the output directory,
   the export and the directory the archive is extracted into
   (export_reader.py lines 218-237, 293-312).  fs is a record:
     export       what lies at --export: "missing", "file" (a file whose
                  suffix is not .zip), "dir", "zip", "badzip" (a .zip file
                  that zipfile cannot open)
     json         conversations.json in the export: "absent", "malformed",
                  or "parsed", and then top is what json.loads returns
     extract_dir  --extract-dir: "none" (not given), "absent", "exists",
                  "extracted" (the archive's files are in it)
     tmp          the TemporaryDirectory: "none", "exists", "removed"
     source_dir   what _open_export_source yielded: "none", "export",
                  "extract_dir", "tmp"
     out_dir      whether the directory --out exists
     out_files    the files in it
     before       out_dir and out_files when main was called *)

\* the files main writes, in the order it writes them (cli.py lines 68-70)
OutputFiles == <<"summary.json", "report.html", "share.svg">>

\* out_dir.mkdir(parents=True, exist_ok=True) (cli.py line 54)
MakeOutDir(f) == [f EXCEPT !.out_dir = TRUE]

\* _open_export_source up to its yield (export_reader.py lines 218-237):
\* the file system it leaves and the exception it raises, if any
_open_export_source(f) ==
    IF f.export = "dir"
        THEN [fs |-> [f EXCEPT !.source_dir = "export"], exc |-> Null]
    ELSE IF f.export = "zip" /\ f.extract_dir # "none"
        THEN [fs |-> [f EXCEPT !.extract_dir = "extracted", !.source_dir = "extract_dir"],
              exc |-> Null]
    ELSE IF f.export = "badzip" /\ f.extract_dir # "none"
        THEN [fs |-> [f EXCEPT !.extract_dir = "exists"], exc |-> Raise("BadZipFile")]
    ELSE IF f.export = "zip"
        THEN [fs |-> [f EXCEPT !.tmp = "exists", !.source_dir = "tmp"], exc |-> Null]
    ELSE IF f.export = "badzip"
        THEN [fs |-> [f EXCEPT !.tmp = "removed"], exc |-> Raise("BadZipFile")]
    ELSE [fs |-> f, exc |-> Raise("FileNotFoundError")]

\* a variant whose temporary directory is removed only when the body of the
\* with statement returns
ExitExportSourceOnReturn(f, raised) ==
    IF f.source_dir = "tmp" /\ ~raised THEN [f EXCEPT !.tmp = "removed"] ELSE f

\* _open_export_source after its yield, when the with statement of
\* read_export is left by a return or by an exception: the
\* TemporaryDirectory is left too (line 231), nothing else is touched
ExitExportSource(f, raised) ==
    IF f.source_dir = "tmp" THEN [f EXCEPT !.tmp = "removed"] ELSE f

\* (source_dir / "conversations.json").read_text and json.loads
\* (export_reader.py lines 113-114), given what lies in source_dir
ReadConversationsJson(f, data) ==
    IF f.json = "absent" THEN Raise("FileNotFoundError")
    ELSE IF f.json = "malformed" THEN Raise("JSONDecodeError")
    ELSE data

\* the n-th write of main (cli.py lines 68-70)
WriteOutput(f, n) == [f EXCEPT !.out_files = @ \cup {OutputFiles[n]}]

\* the values of conversations.json the runs are checked on
RunTopValues ==
    NonLists
    \cup {JList(<<>>)}
    \cup {JList(<<ChatgptConv(JStr(s_c1), JStr(s_T1), Omit, JMap(<<n>>))>>) :
            n \in ChatgptSingleNodes}
    \cup {JList(<<ClaudeConv(JStr(s_c1), JStr(s_T1), Omit, JList(<<m>>))>>) :
            m \in ClaudeSingleMsgs}

\* what lies at --out before the run: nothing, an empty directory, or the
\* report of an earlier run
OutputsBefore ==
    {[out_dir |-> FALSE, out_files |-> {}], [out_dir |-> TRUE, out_files |-> {}],
     [out_dir |-> TRUE, out_files |-> {"report.html"}]}

FileSystems ==
    {[export |-> e, json |-> j, extract_dir |-> x, tmp |-> "none", source_dir |-> "none",
      out_dir |-> b.out_dir, out_files |-> b.out_files, before |-> b] :
        e \in {"missing", "file", "dir", "zip", "badzip"},
        j \in {"absent", "malformed", "parsed"},
        x \in {"none", "absent", "exists"},
        b \in OutputsBefore}

InitRun ==
    /\ fs \in {f \in FileSystems : f.export \in {"dir", "zip"} \/ f.json = "absent"}
    /\ top \in IF fs.json = "parsed" THEN RunTopValues ELSE {Null}
    /\ year = Null
    /\ role_scope = {s_user, s_assistant}
    /\ tz = 0
    /\ pc = "start"
    /\ detected = "none"
    /\ dataset = Null
    /\ summary = Null
    /\ redact = FALSE
    /\ max_excerpts = DefaultMaxExcerpts
    /\ arg = Null
    /\ result = Null

\* cli.py line 54
MakeOutputDirectory ==
    /\ pc = "start"
    /\ fs' = MakeOutDir(fs)
    /\ pc' = "out_dir_made"
    /\ UNCHANGED <<top, year, role_scope, tz, detected, dataset, summary, redact,
                   max_excerpts, arg, result>>

\* read_export enters its with statement (export_reader.py line 300); an
\* exception of _open_export_source leaves read_export and main
OpenExportSource ==
    /\ pc = "out_dir_made"
    /\ LET opened == _open_export_source(fs)
       IN  /\ fs' = opened.fs
           /\ dataset' = opened.exc
           /\ pc' = IF IsRaise(opened.exc) THEN "failed" ELSE "opened"
    /\ UNCHANGED <<top, year, role_scope, tz, detected, summary, redact, max_excerpts, arg,
                   result>>

\* _load_conversations_json(source_dir) (export_reader.py line 301)
LoadConversationsJson ==
    /\ pc = "opened"
    /\ LET data == ReadConversationsJson(fs, top)
           conversations_raw == IF IsRaise(data) THEN data
                                ELSE _load_conversations_json(data)
       IN  /\ dataset' = IF IsRaise(conversations_raw) THEN conversations_raw ELSE Null
           /\ pc' = IF IsRaise(conversations_raw) THEN "raising" ELSE "loaded"
    /\ UNCHANGED <<top, year, role_scope, tz, detected, summary, redact, max_excerpts, arg,
                   result, fs>>

\* _detect_export_source and the normalizer it selects (export_reader.py
\* lines 302-312), which returns the Dataset or raises
Normalize ==
    /\ pc = "loaded"
    /\ dataset' = read_export(top, year, role_scope, tz)
    /\ detected' = _detect_export_source(_load_conversations_json(top).xs)
    /\ pc' = IF IsRaise(dataset') THEN "raising" ELSE "returning"
    /\ UNCHANGED <<top, year, role_scope, tz, summary, redact, max_excerpts, arg, result,
                   fs>>

\* the with statement of read_export is left, by the return of the
\* Dataset or by the exception
LeaveExportSource ==
    /\ pc \in {"raising", "returning"}
    /\ fs' = ExitExportSource(fs, pc = "raising")
    /\ pc' = IF pc = "raising" THEN "failed" ELSE "ingested"
    /\ UNCHANGED <<top, year, role_scope, tz, detected, dataset, summary, redact,
                   max_excerpts, arg, result>>

\* main writes summary.json, report.html and share.svg, one after the other
\* (cli.py lines 68-70)
WriteOutputs ==
    /\ pc \in {"summarized", "wrote 1", "wrote 2"}
    /\ LET n == IF pc = "summarized" THEN 1 ELSE IF pc = "wrote 1" THEN 2 ELSE 3
       IN  /\ fs' = WriteOutput(fs, n)
           /\ pc' = IF n = 3 THEN "done" ELSE IF n = 1 THEN "wrote 1" ELSE "wrote 2"
    /\ UNCHANGED <<top, year, role_scope, tz, detected, dataset, summary, redact,
                   max_excerpts, arg, result>>

NextRun ==
    \/ MakeOutputDirectory
    \/ OpenExportSource
    \/ LoadConversationsJson
    \/ Normalize
    \/ LeaveExportSource
    \/ Summarize
    \/ WriteOutputs

SpecRun == InitRun /\ [][NextRun]_vars

----------------------------------------------------------------------------
(* What the claims speak of *)

Returned == pc # "start" /\ dataset.t = "dataset"
Raised == pc # "start" /\ IsRaise(dataset)

\* the conversation records of the input, and the raw messages of one
RawRecords == IF IsList(top) THEN SelectSeq(top.xs, IsDict) ELSE <<>>

RawMessagesOf(conv, source) ==
    IF source = "claude"
    THEN (IF IsList(Get(conv, "chat_messages")) THEN Get(conv, "chat_messages").xs ELSE <<>>)
    ELSE (IF Get(conv, "mapping").t = "map" THEN Get(conv, "mapping").nodes ELSE <<>>)

\* the places <<i, j>> of the raw messages
RawPlaces(source) ==
    {<<i, j>> : i \in 1..Len(RawRecords), j \in 1..MaxWide} \cap
    UNION {{<<i, j>> : j \in 1..Len(RawMessagesOf(RawRecords[i], source))} :
            i \in 1..Len(RawRecords)}

RawAt(p, source) == RawMessagesOf(RawRecords[p[1]], source)[p[2]]

CountIn(seq, x) == Cardinality({i \in 1..Len(seq) : seq[i] = x})

----------------------------------------------------------------------------
(* C1: a raw message is in Dataset.messages, once, exactly if its node
   carries a payload (ChatGPT), its timestamp parses, it passes the year
   filter, its canonical role is in the role scope and its extracted text is
   not empty; nothing else is there, and sorting neither drops nor
   duplicates a message. *)

C1_Payload(raw, source) ==
    IF source = "claude" THEN raw
    ELSE IF IsDict(raw) /\ IsDict(Get(raw, "message")) /\ Truthy(Get(raw, "message"))
        THEN Get(raw, "message")
    ELSE Null

C1_Created(msg, source) ==
    IF source = "claude" THEN _dt_from_iso(Get(msg, "created_at"), tz)
    ELSE _dt_from_ts(Get(msg, "create_time"))

C1_Role(msg, source) ==
    IF source = "claude" THEN _claude_sender_to_role(GetOr(msg, "sender", JStr(<<>>)))
    ELSE _get_role(msg)

C1_Text(msg, source) ==
    IF source = "claude" THEN _extract_claude_text(msg)
    ELSE _extract_text_from_content(Get(msg, "content"))

C1_QualifiesAnyYear(raw, source) ==
    LET msg == C1_Payload(raw, source)
    IN  /\ IsDict(msg)
        /\ C1_Created(msg, source).t = "dt"
        /\ C1_Role(msg, source).t = "str" /\ C1_Role(msg, source).s \in role_scope
        /\ C1_Text(msg, source) # <<>>

C1_YearOfRaw(raw, source) == YearOf(C1_Created(C1_Payload(raw, source), source))

C1_Qualifies(raw, source) ==
    /\ C1_QualifiesAnyYear(raw, source)
    /\ year = Null \/ C1_YearOfRaw(raw, source) = year.n

C1_Image(conv, raw, source) ==
    LET msg == C1_Payload(raw, source)
    IN  [t |-> "msg",
         conversation_id |->
            PyStr(OrEmpty(Get(conv, IF source = "claude" THEN "uuid" ELSE "id"))),
         conversation_title |->
            PyStr(OrUntitled(Get(conv, IF source = "claude" THEN "name" ELSE "title"))),
         message_id |-> PyStr(OrEmpty(Get(msg, IF source = "claude" THEN "uuid" ELSE "id"))),
         role |-> C1_Role(msg, source),
         created_at |-> C1_Created(msg, source),
         text |-> C1_Text(msg, source),
         model |-> IF source = "claude" THEN Null ELSE _get_model(msg)]

C1_QualifyingPlaces(source) == {p \in RawPlaces(source) : C1_Qualifies(RawAt(p, source), source)}

C1_ImageAt(p, source) == C1_Image(RawRecords[p[1]], RawAt(p, source), source)

C1_MessagesAreExactlyTheQualifying ==
    Returned =>
        LET source == dataset.source
            places == C1_QualifyingPlaces(source)
        IN  /\ Len(dataset.messages) = Cardinality(places)
            /\ \A p \in places :
                CountIn(dataset.messages, C1_ImageAt(p, source))
                    = Cardinality({q \in places : C1_ImageAt(q, source) = C1_ImageAt(p, source)})

\* a Dataset of at least two messages, one of them twice in the input, from
\* an input of which at least one message was dropped
C1_Witness ==
    /\ Returned
    /\ Len(dataset.messages) >= 2
    /\ Cardinality(RawPlaces(dataset.source)) > Len(dataset.messages)
    /\ \E i, j \in 1..Len(dataset.messages) : i # j /\ dataset.messages[i] = dataset.messages[j]

----------------------------------------------------------------------------
(* C2: in every Dataset, a message that comes before another has a key
   (created_at, conversation_id, message_id) that is not greater. *)

C2_StrLeq(a, b) == a = b \/ StrLess(a, b)

C2_KeyLeq(m1, m2) ==
    \/ DtLess(m1.created_at, m2.created_at)
    \/ /\ m1.created_at = m2.created_at
       /\ \/ StrLess(m1.conversation_id, m2.conversation_id)
          \/ /\ m1.conversation_id = m2.conversation_id
             /\ C2_StrLeq(m1.message_id, m2.message_id)

C2_MessagesAreSorted ==
    Returned =>
        \A i, j \in 1..Len(dataset.messages) :
            i < j => C2_KeyLeq(dataset.messages[i], dataset.messages[j])

\* messages of one instant from two conversations, and a later one: the
\* order rests on the conversation id
C2_Witness ==
    /\ Returned
    /\ Len(dataset.messages) >= 3
    /\ \E i \in 1..(Len(dataset.messages) - 1) :
        /\ dataset.messages[i].created_at = dataset.messages[i + 1].created_at
        /\ StrLess(dataset.messages[i].conversation_id, dataset.messages[i + 1].conversation_id)
    /\ \E i \in 1..(Len(dataset.messages) - 1) :
        DtLess(dataset.messages[i].created_at, dataset.messages[i + 1].created_at)

----------------------------------------------------------------------------
(* C3: the detector answers from the first record alone: 'unknown' for the
   empty list, 'claude' if the first record has chat_messages and uuid,
   'chatgpt' if it has mapping and id and is not Claude-shaped, 'unknown'
   otherwise, whatever records follow. *)

C3_KeysOf(record) == (DOMAIN record) \ {"t"}

C3_Expected(records) ==
    IF Len(records) = 0 THEN "unknown"
    ELSE IF {"chat_messages", "uuid"} \subseteq C3_KeysOf(records[1]) THEN "claude"
    ELSE IF {"mapping", "id"} \subseteq C3_KeysOf(records[1]) THEN "chatgpt"
    ELSE "unknown"

C3_DetectionReadsFirstRecord ==
    pc = "detected" => detected = C3_Expected(top.xs)

\* a list whose first record is Claude-shaped and whose second is
\* ChatGPT-shaped only
C3_Witness ==
    /\ pc = "detected"
    /\ Len(top.xs) = 2
    /\ C3_KeysOf(top.xs[1]) = {"chat_messages", "uuid"}
    /\ C3_KeysOf(top.xs[2]) = {"mapping", "id"}
    /\ detected = "claude"

----------------------------------------------------------------------------
(* C4: read_export runs the Claude normalizer exactly when detection says
   'claude' and the ChatGPT normalizer otherwise ('unknown' and the empty
   list included); Dataset.source names the normalizer that ran and is never
   'unknown'. *)

C4_DispatchFollowsDetection ==
    (pc # "start" /\ IsList(top)) =>
        /\ detected = "claude" =>
            dataset = _read_claude_export(RawRecords, year, role_scope, tz)
        /\ detected # "claude" =>
            dataset = _read_chatgpt_export(RawRecords, year, role_scope)
        /\ Returned => dataset.source = (IF detected = "claude" THEN "claude" ELSE "chatgpt")

\* an export of unknown shape, read by the ChatGPT normalizer, which found a
\* message in it
C4_Witness ==
    /\ Returned
    /\ detected = "unknown"
    /\ dataset.source = "chatgpt"
    /\ dataset.messages # <<>>

----------------------------------------------------------------------------
(* C5: ingestion ends in a fatal error whenever the top-level value is not
   a list of object records: a non-list value, and equally a list with an
   element that is not an object.  (The second half does not hold.) *)

C5_ListOfObjects == IsList(top) /\ \A i \in 1..Len(top.xs) : IsDict(top.xs[i])

C5_Original == (pc # "start" /\ ~C5_ListOfObjects) => Raised

\* As amended: a value that is not a list is a fatal ValueError; in a list,
\* an element that is not an object is dropped and the result is that of the
\* list without it.
C5_NonListIsFatalNonObjectIsSkipped ==
    pc # "start" =>
        /\ ~IsList(top) => dataset = Raise("ValueError") /\ pc = "failed"
        /\ IsList(top) =>
            dataset = read_export(JList(SelectSeq(top.xs, IsDict)), year, role_scope, tz)

\* a list of a conversation record and a number, read into a Dataset of one
\* conversation
C5_Witness ==
    /\ Returned
    /\ \E i \in 1..Len(top.xs) : ~IsDict(top.xs[i])
    /\ Len(dataset.conversations) = 1
    /\ dataset.messages # <<>>

----------------------------------------------------------------------------
(* C6: for a list of object records, whatever the fields hold, both
   normalizers return a Dataset and never raise.  (The code raises.) *)

C6_NormalizersNeverRaise == (pc # "start" /\ IsList(top)) => Returned

----------------------------------------------------------------------------
(* C7: with a year filter Y, a message whose UTC creation year is not Y is
   absent from the Summary: the counts, the histograms and the title and
   model tables count the messages of year Y alone, so a message of another
   year adds to none of them. *)

Summarized == pc = "summarized"

C7_Places == RawPlaces(dataset.source)

\* the raw messages that pass every test of ingestion but the year's
C7_Candidates == {p \in C7_Places : C1_QualifiesAnyYear(RawAt(p, dataset.source), dataset.source)}

C7_OfYear == {p \in C7_Candidates : C1_YearOfRaw(RawAt(p, dataset.source), dataset.source) = year.n}

C7_OfOtherYears == C7_Candidates \ C7_OfYear

C7_Msg(p) == C1_ImageAt(p, dataset.source)

RECURSIVE C7_Sum(_)
C7_Sum(table) == IF table = <<>> THEN 0 ELSE Head(table)[2] + C7_Sum(Tail(table))

C7_OtherYearsAreAbsent ==
    (Summarized /\ year # Null) =>
        /\ \A i \in 1..Len(dataset.messages) : YearOf(dataset.messages[i].created_at) = year.n
        /\ summary.total_messages = Cardinality(C7_OfYear)
        /\ summary.total_user_messages
            = Cardinality({p \in C7_OfYear : C7_Msg(p).role = JStr(s_user)})
        /\ summary.total_assistant_messages
            = Cardinality({p \in C7_OfYear : C7_Msg(p).role = JStr(s_assistant)})
        /\ C7_Sum(summary.messages_by_month) = Cardinality(C7_OfYear)
        /\ \A i \in 1..Len(summary.messages_by_month) :
            SubSeq(summary.messages_by_month[i][1], 1, 4) = ZeroPad(DecStr(year.n), 4)
        /\ C7_Sum(summary.messages_by_weekday) = Cardinality(C7_OfYear)
        /\ C7_Sum(summary.messages_by_day_local) = Cardinality(C7_OfYear)
        /\ C7_Sum(summary.messages_by_hour_local) = Cardinality(C7_OfYear)
        /\ summary.active_days
            = Cardinality({DateIso(LocalDt(C7_Msg(p).created_at, tz)) : p \in C7_OfYear})
        /\ \A i \in 1..Len(summary.top_titles) :
            summary.top_titles[i][2]
                = Cardinality({p \in C7_OfYear :
                        C7_Msg(p).conversation_title = summary.top_titles[i][1]})
        /\ \A i \in 1..Len(summary.longest_conversations) :
            summary.longest_conversations[i][2]
                = Cardinality({p \in C7_OfYear :
                        C7_Msg(p).conversation_title = summary.longest_conversations[i][1]})
        /\ \A i \in 1..Len(summary.top_models) :
            summary.top_models[i][2]
                = Cardinality({p \in C7_OfYear :
                        C7_Msg(p).model = JStr(summary.top_models[i][1])})
        /\ summary.total_messages > 0 =>
            /\ YearOf(summary.first_message) = year.n
            /\ YearOf(summary.last_message) = year.n

\* a Summary for the year 2024 of an input that has a message of 2024 and a
\* message of another year that would otherwise have been kept
C7_Witness ==
    /\ Summarized
    /\ year # Null
    /\ C7_OfOtherYears # {}
    /\ summary.total_messages > 0

----------------------------------------------------------------------------
(* C8: every message of the Dataset is counted once in each aggregate of
   the Summary: total_messages is the number of messages, each of the five
   histograms (UTC month, UTC weekday, local day, local hour, conversation
   title) sums to total_messages, and total_user_messages +
   total_assistant_messages <= total_messages, with equality when the role
   scope is within {user, assistant}.  (The title table of the Summary is
   cut to its 15 largest entries, so it does not.) *)

RECURSIVE C8_Sum(_)
C8_Sum(table) == IF table = <<>> THEN 0 ELSE Head(table)[2] + C8_Sum(Tail(table))

C8_Messages == dataset.messages

C8_Titles == {TitleKey(C8_Messages[i]) : i \in 1..Len(C8_Messages)}

\* each entry of a table is the number of messages with its key
C8_CountsEach(table, keys) ==
    \A e \in 1..Len(table) :
        table[e][2] = Cardinality({i \in 1..Len(keys) : keys[i] = table[e][1]})

C8_TimeHistograms ==
    /\ summary.total_messages = Len(C8_Messages)
    /\ C8_Sum(summary.messages_by_month) = summary.total_messages
    /\ C8_CountsEach(summary.messages_by_month,
                     [i \in 1..Len(C8_Messages) |-> _month_key(C8_Messages[i].created_at)])
    /\ C8_Sum(summary.messages_by_weekday) = summary.total_messages
    /\ C8_CountsEach(summary.messages_by_weekday,
                     [i \in 1..Len(C8_Messages) |-> _weekday_key(C8_Messages[i].created_at)])
    /\ C8_Sum(summary.messages_by_day_local) = summary.total_messages
    /\ C8_CountsEach(summary.messages_by_day_local,
                     [i \in 1..Len(C8_Messages) |->
                        DateIso(LocalDt(C8_Messages[i].created_at, tz))])
    /\ C8_Sum(summary.messages_by_hour_local) = summary.total_messages
    /\ C8_CountsEach(summary.messages_by_hour_local,
                     [i \in 1..Len(C8_Messages) |->
                        DecStr(HourOf(LocalDt(C8_Messages[i].created_at, tz)))])

C8_Roles ==
    /\ summary.total_user_messages + summary.total_assistant_messages <= summary.total_messages
    /\ role_scope \subseteq {s_user, s_assistant} =>
        summary.total_user_messages + summary.total_assistant_messages = summary.total_messages

C8_Original ==
    Summarized =>
        /\ C8_TimeHistograms
        /\ C8_Sum(summary.top_titles) = summary.total_messages
        /\ C8_Roles

\* As amended: the four time histograms of the Summary each sum to
\* total_messages; every entry of the title table is the number of messages
\* of that title, but the table holds the 15 largest entries only, so it sums
\* to total_messages exactly when the messages have at most 15 titles and to
\* less otherwise; the counts by role are as claimed.
C8_EachMessageCountedOnce ==
    Summarized =>
        /\ C8_TimeHistograms
        /\ C8_CountsEach(summary.top_titles,
                         [i \in 1..Len(C8_Messages) |-> TitleKey(C8_Messages[i])])
        /\ \A i, j \in 1..Len(summary.top_titles) :
            i # j => summary.top_titles[i][1] # summary.top_titles[j][1]
        /\ Len(summary.top_titles)
            = (IF Cardinality(C8_Titles) <= TopTitlesLimit THEN Cardinality(C8_Titles)
               ELSE TopTitlesLimit)
        /\ Cardinality(C8_Titles) <= TopTitlesLimit
            <=> C8_Sum(summary.top_titles) = summary.total_messages
        /\ C8_Sum(summary.top_titles) <= summary.total_messages
        /\ C8_Roles

\* a Summary of messages under more than 15 titles
C8_Witness ==
    /\ Summarized
    /\ Cardinality(C8_Titles) > TopTitlesLimit
    /\ Len(summary.top_titles) = TopTitlesLimit
    /\ summary.total_messages > TopTitlesLimit

----------------------------------------------------------------------------
(* C9: in every Dataset, the conversation_id and the conversation_title of
   each message are the conversation_id and the title of some Conversation
   of Dataset.conversations; a Conversation need not have a message. *)

C9_MessagesBelongToConversations ==
    Returned =>
        \A i \in 1..Len(dataset.messages) :
            \E c \in 1..Len(dataset.conversations) :
                /\ dataset.conversations[c].conversation_id = dataset.messages[i].conversation_id
                /\ dataset.conversations[c].title = dataset.messages[i].conversation_title

\* a message under the placeholder title, and a Conversation without a
\* message
C9_Witness ==
    /\ Returned
    /\ \E i \in 1..Len(dataset.messages) : dataset.messages[i].conversation_title = s_Untitled
    /\ \E c \in 1..Len(dataset.conversations) :
        \A i \in 1..Len(dataset.messages) :
            dataset.messages[i].conversation_id # dataset.conversations[c].conversation_id

----------------------------------------------------------------------------
(* C10: Dataset.conversations holds one Conversation for each raw
   conversation record, in the order of the input, whatever the year filter
   and the role scope, and also for a conversation of which no message
   survives or whose message container is missing or malformed. *)

C10_IdKey == IF dataset.source = "claude" THEN "uuid" ELSE "id"
C10_TitleKey == IF dataset.source = "claude" THEN "name" ELSE "title"

C10_OneConversationPerRecord ==
    Returned =>
        /\ Len(dataset.conversations) = Len(RawRecords)
        /\ \A i \in 1..Len(RawRecords) :
            /\ dataset.conversations[i].conversation_id
                = PyStr(OrEmpty(Get(RawRecords[i], C10_IdKey)))
            /\ dataset.conversations[i].title
                = PyStr(OrUntitled(Get(RawRecords[i], C10_TitleKey)))

\* two records with different ids, the first without a usable message
\* container, the second with a message that survives
C10_Witness ==
    /\ Returned
    /\ Len(RawRecords) = 2
    /\ RawMessagesOf(RawRecords[1], dataset.source) = <<>>
    /\ dataset.messages # <<>>
    /\ dataset.conversations[1].conversation_id # dataset.conversations[2].conversation_id

----------------------------------------------------------------------------
(* C11: within one source file, distinct conversation records never get the
   same conversation_id in the Dataset; records whose id field is missing,
   empty or absent for the running normalizer are not collapsed onto one
   shared empty id.  (The code gives each of them the id "".) *)

C11_DistinctRecordsDistinctIds ==
    Returned =>
        \A i, j \in 1..Len(dataset.conversations) :
            (i # j /\ RawRecords[i] # RawRecords[j]) =>
                \/ dataset.conversations[i].conversation_id
                    # dataset.conversations[j].conversation_id
                \/ /\ Truthy(Get(RawRecords[i], C10_IdKey))
                   /\ Get(RawRecords[i], C10_IdKey) = Get(RawRecords[j], C10_IdKey)

----------------------------------------------------------------------------
(* C12: in every Dataset, two distinct messages of one conversation_id never
   carry the same non-empty message_id.  (The code takes the id from the
   payload and keeps every message.) *)

C12_MessageIdsUniqueInConversation ==
    Returned =>
        \A i, j \in 1..Len(dataset.messages) :
            (/\ i # j
             /\ dataset.messages[i] # dataset.messages[j]
             /\ dataset.messages[i].conversation_id = dataset.messages[j].conversation_id
             /\ dataset.messages[i].message_id # <<>>)
                => dataset.messages[i].message_id # dataset.messages[j].message_id

----------------------------------------------------------------------------
(* C13: Summary.total_conversations is the number of distinct conversation
   ids among the messages of the Dataset when it has a message, and the
   number of Conversation records of the Dataset when it has none. *)

\* the messages that are the first of their conversation id
C13_FirstOfTheirId ==
    {i \in 1..Len(dataset.messages) :
        \A j \in 1..(i - 1) :
            dataset.messages[j].conversation_id # dataset.messages[i].conversation_id}

C13_TotalConversations ==
    Summarized =>
        summary.total_conversations
            = (IF Len(dataset.messages) > 0 THEN Cardinality(C13_FirstOfTheirId)
               ELSE Len(dataset.conversations))

\* messages of fewer conversation ids than the Dataset has Conversations
C13_Witness ==
    /\ Summarized
    /\ Len(dataset.messages) >= 2
    /\ summary.total_conversations >= 1
    /\ summary.total_conversations < Len(dataset.conversations)

----------------------------------------------------------------------------
(* C14: the longest streak is the length of the longest run of consecutive
   calendar dates among the distinct dates given, 0 for no dates and at least
   1 otherwise; Summary.longest_streak_days is that value for the local dates
   of the messages and never exceeds Summary.active_days *)

C14_IsRun(days, first, n) == \A k \in 0..(n - 1) : first + k \in days

C14_LongestRun(days) ==
    IF days = {} THEN 0
    ELSE CHOOSE n \in 1..Cardinality(days) :
            /\ \E first \in days : C14_IsRun(days, first, n)
            /\ \A larger \in (n + 1)..Cardinality(days) :
                   \A first \in days : ~C14_IsRun(days, first, larger)

C14_Dates(days) == {days[i] : i \in 1..Len(days)}

C14_LocalDates ==
    {DtShift(dataset.messages[i].created_at, tz).d : i \in 1..Len(dataset.messages)}

C14_LongestStreak ==
    /\ (pc = "returned" /\ arg.f = "_compute_longest_streak") =>
          /\ result = C14_LongestRun(C14_Dates(arg.x))
          /\ (arg.x = <<>>) => result = 0
          /\ (arg.x # <<>>) => result >= 1
    /\ Summarized =>
          /\ summary.longest_streak_days = C14_LongestRun(C14_LocalDates)
          /\ summary.longest_streak_days <= summary.active_days

C14_Witness ==
    /\ pc = "returned" /\ arg.f = "_compute_longest_streak"
    /\ result = 2
    /\ Cardinality(C14_Dates(arg.x)) = 3
    /\ Len(arg.x) = 4
    /\ arg.x[1] > arg.x[2]

C14_WitnessOfSummary ==
    /\ Summarized
    /\ summary.longest_streak_days = 2
    /\ summary.active_days = 3

----------------------------------------------------------------------------
(* C15: each of top_words (30), top_bigrams (30), top_titles (15),
   top_models (10) and longest_conversations (10) holds min(K, number of
   distinct keys) entries of its counter, each with the number of times its
   key was counted, in non-increasing order of count, none with an empty key,
   no key left out having been counted more often than one that is in, and
   entries of equal count in the order in which their keys first occur in
   the sequence of messages *)

\* the keys in the order the loop of summarize counts them
RECURSIVE C15_Words(_)
C15_Words(messages) ==
    IF messages = <<>> THEN <<>>
    ELSE _tokenize(Head(messages).text) \o C15_Words(Tail(messages))

RECURSIVE C15_Bigrams(_)
C15_Bigrams(messages) ==
    IF messages = <<>> THEN <<>>
    ELSE _bigrams(_tokenize(Head(messages).text)) \o C15_Bigrams(Tail(messages))

C15_Titles(messages) ==
    [i \in 1..Len(messages) |->
        IF messages[i].conversation_title = <<>> THEN s_Untitled
        ELSE messages[i].conversation_title]

C15_HasModel(m) == m.model # Null /\ m.model.s # <<>>

C15_Models(messages) ==
    LET with_model == SelectSeq(messages, C15_HasModel)
    IN  [i \in 1..Len(with_model) |-> with_model[i].model.s]

C15_Places(keys, key) == {i \in 1..Len(keys) : keys[i] = key}

C15_First(keys, key) ==
    CHOOSE i \in C15_Places(keys, key) : \A j \in C15_Places(keys, key) : i <= j

C15_IsTop(table, keys, limit) ==
    LET distinct == {keys[i] : i \in 1..Len(keys)}
        shown == {table[i][1] : i \in 1..Len(table)}
    IN  /\ Len(table) = (IF Cardinality(distinct) < limit THEN Cardinality(distinct) ELSE limit)
        /\ Cardinality(shown) = Len(table)
        /\ \A i \in 1..Len(table) :
              /\ table[i][1] \in distinct
              /\ table[i][1] # <<>>
              /\ table[i][2] = Cardinality(C15_Places(keys, table[i][1]))
        /\ \A i, j \in 1..Len(table) :
              i < j =>
                 \/ table[i][2] > table[j][2]
                 \/ /\ table[i][2] = table[j][2]
                    /\ C15_First(keys, table[i][1]) < C15_First(keys, table[j][1])
        /\ \A key \in distinct \ shown : \A i \in 1..Len(table) :
              Cardinality(C15_Places(keys, key)) <= table[i][2]

C15_TopTables ==
    Summarized =>
        /\ C15_IsTop(summary.top_words, C15_Words(dataset.messages), 30)
        /\ C15_IsTop(summary.top_bigrams, C15_Bigrams(dataset.messages), 30)
        /\ C15_IsTop(summary.top_titles, C15_Titles(dataset.messages), 15)
        /\ C15_IsTop(summary.top_models, C15_Models(dataset.messages), 10)
        /\ C15_IsTop(summary.longest_conversations, C15_Titles(dataset.messages), 10)

C15_Witness ==
    /\ Summarized
    /\ Len(summary.top_titles) = 15
    /\ Len(summary.top_models) = 10
    /\ summary.top_titles[1][2] = 2
    /\ summary.top_titles[2][2] = 1
    /\ Cardinality({dataset.messages[i].conversation_title : i \in 1..Len(dataset.messages)}) > 15

C15_WitnessOfWords ==
    /\ Summarized
    /\ Len(summary.top_words) = 30
    /\ Len(summary.top_bigrams) = 30
    /\ summary.top_words[1][2] = 2
    /\ summary.top_words[2][2] = 1

C15_WitnessOfTies ==
    /\ Summarized
    /\ Len(dataset.messages) = 2
    /\ Len(summary.top_bigrams) >= 2
    /\ summary.top_bigrams[1][2] = 2
    /\ summary.top_bigrams[2][2] = 1
    /\ C15_First(C15_Bigrams(dataset.messages), summary.top_bigrams[1][1]) = 2

----------------------------------------------------------------------------
(* C16: for max_excerpts >= 0, summarize returns at most max_excerpts
   excerpts, each of one of the first 2 x max_excerpts messages and in the
   order of the messages; exactly max_excerpts of them when that many of the
   messages at the front have text to show, and none for max_excerpts = 0.
   A text has something to show when it is not white space throughout; the
   readers never let through a text that is *)

C16_HasText(m) == \E i \in 1..Len(m.text) : ~IsSpace(m.text[i])

C16_WindowEnd ==
    IF 2 * max_excerpts < Len(dataset.messages) THEN 2 * max_excerpts
    ELSE Len(dataset.messages)

C16_Shown == {i \in 1..C16_WindowEnd : C16_HasText(dataset.messages[i])}

\* the place of the n-th message of the window that has text
C16_Place(n) ==
    CHOOSE i \in C16_Shown : Cardinality({j \in C16_Shown : j <= i}) = n

C16_ExcerptsFromTheFront ==
    (Summarized /\ max_excerpts >= 0) =>
        /\ Len(summary.excerpts) <= max_excerpts
        /\ Len(summary.excerpts) =
              (IF Cardinality(C16_Shown) < max_excerpts THEN Cardinality(C16_Shown)
               ELSE max_excerpts)
        /\ \A n \in 1..Len(summary.excerpts) :
              LET m == dataset.messages[C16_Place(n)]
              IN  /\ summary.excerpts[n].conversation_id = m.conversation_id
                  /\ summary.excerpts[n].created_at_iso = IsoFormat(m.created_at)
                  /\ summary.excerpts[n].role = m.role
                  /\ summary.excerpts[n].text # <<>>
        /\ (max_excerpts = 0) => summary.excerpts = <<>>

C16_Witness ==
    /\ Summarized
    /\ max_excerpts = 1
    /\ Len(dataset.messages) = 3
    /\ ~C16_HasText(dataset.messages[1])
    /\ C16_HasText(dataset.messages[3])
    /\ Len(summary.excerpts) = 1
    /\ summary.excerpts[1].created_at_iso = IsoFormat(dataset.messages[2].created_at)

C16_WitnessOfWindow ==
    /\ Summarized
    /\ max_excerpts = 1
    /\ Len(dataset.messages) = 3
    /\ C16_HasText(dataset.messages[3])
    /\ summary.excerpts = <<>>

C16_WitnessOfMany ==
    /\ Summarized
    /\ max_excerpts = DefaultMaxExcerpts
    /\ Len(dataset.messages) > DefaultMaxExcerpts
    /\ Len(summary.excerpts) = DefaultMaxExcerpts

----------------------------------------------------------------------------
(* C17: every excerpt text of a Summary is at most 361 characters long (360
   and the ellipsis), whatever the text of the message and whether or not
   redact is set; a text of at most 360 characters once its white space is
   normalised carries no ellipsis.
   The code cuts the snippet to 360 characters before it redacts it (lines
   205-207), and a placeholder is longer than what it stands for: a text of
   354 exclamation marks and "a@b.co" gives an excerpt of 370 characters *)

C17_ExcerptsAreShort ==
    (Summarized /\ max_excerpts >= 0) =>
        \A n \in 1..Len(summary.excerpts) :
            LET text == summary.excerpts[n].text
                normalised == Snippet(dataset.messages[C16_Place(n)].text, FALSE)
            IN  /\ Len(text) <= 361
                /\ Len(normalised) <= 360 => text[Len(text)] # 8230

\* without redaction the bound holds
C17_NoRedactionExcerptsAreShort ==
    (Summarized /\ max_excerpts >= 0 /\ ~redact) =>
        \A n \in 1..Len(summary.excerpts) :
            LET text == summary.excerpts[n].text
            IN  /\ Len(text) <= 361
                /\ (Len(text) = 361) => text[361] = 8230
                /\ (Len(text) <= 360) => text[Len(text)] # 8230

----------------------------------------------------------------------------
(* C18: redaction replaces every substring shaped like an email address, a
   URL or a phone number by its placeholder, so that none of them is left in
   the result.
   The three patterns of the code begin and end with \b (lines 13-15): an
   address followed by an underscore or a digit, a URL or a phone number
   that follows a letter, a digit or an underscore is not matched and stays
   in the text as it is *)

\* local@domain.tld
C18_EmailShape ==
    ReCat(<<ReRep(ReSet(AsciiAlnum \cup {46, 95, 37, 43, 45}), 1, -1),
            ReSet({64}),
            ReRep(ReSet(AsciiAlnum \cup {46, 45}), 1, -1),
            ReSet({46}),
            ReRep(ReSet(AsciiLetters), 2, -1)>>)

\* http:// or https:// and what follows up to white space
C18_UrlShape ==
    ReCat(<<ReLiteralIgnoreCase(<<104, 116, 116, 112>>),
            ReOpt(ReSet({115, 83})),
            ReLiteralIgnoreCase(<<58, 47, 47>>),
            ReRep(ReNot({c \in 0..160 : IsSpace(c)}), 1, -1)>>)

\* three digits and four digits, with a space, a dot or a dash between them
\* or nothing
C18_PhoneShape ==
    ReCat(<<ReRep(ReSet(AsciiDigits), 3, 3), ReOpt(ReSet({45, 46, 32})),
            ReRep(ReSet(AsciiDigits), 4, 4)>>)

C18_Holds(shape, text) == ReStarts(shape, text) # {}

C18_Contains(text, part) ==
    \E i \in 0..(Len(text) - Len(part)) : SubSeq(text, i + 1, i + Len(part)) = part

C18_NothingSensitiveIsLeft ==
    (pc = "returned" /\ arg.f = "_redact") =>
        /\ ~C18_Holds(C18_EmailShape, result)
        /\ ~C18_Holds(C18_UrlShape, result)
        /\ ~C18_Holds(C18_PhoneShape, result)

\* what does hold: a text that is nothing but an address, a URL or a phone
\* number, or has one between spaces, comes back with the placeholder in
\* its place
C18_RedactedBetweenSpaces ==
    (pc = "returned" /\ arg.f = "_redact") =>
        \A before \in {<<>>, <<32>>, <<120, 32>>}, after \in {<<>>, <<32>>, <<32, 120>>} :
            /\ (arg.x = before \o s_email \o after) =>
                  result = before \o s_redacted_email \o after
            /\ (arg.x = before \o s_url \o after) =>
                  result = before \o s_redacted_url \o after
            /\ (arg.x = before \o s_phone \o after) =>
                  result = before \o s_redacted_phone \o after

----------------------------------------------------------------------------
(* C19: for every text the tokenizer returns, in the order of the text, only
   tokens that are lower-case, at least 2 characters long, made of letters
   and digits with apostrophes, underscores and hyphens only between them
   (never first, never last), not digits throughout and not stop words.
   _WORD_RE lets the second and every later character be an apostrophe, an
   underscore or a hyphen (line 12), the last one included: "well- done"
   gives the tokens "well-" and "done" *)

C19_Joiners == {39, 95, 45}

C19_WellFormed(token) ==
    /\ Len(token) >= 2
    /\ \A i \in 1..Len(token) :
          token[i] \in AsciiLower \cup AsciiDigits \cup C19_Joiners
    /\ token[1] \notin C19_Joiners
    /\ \E i \in 1..Len(token) : token[i] \notin AsciiDigits
    /\ token \notin _STOPWORDS

C19_TokensAreWords ==
    (pc = "returned" /\ arg.f = "_tokenize") =>
        \A n \in 1..Len(result) :
            /\ C19_WellFormed(result[n])
            /\ result[n][Len(result[n])] \notin C19_Joiners

\* what does hold: everything but the last character, and the order of the
\* text
C19_TokensAreWordsButForTheirEnd ==
    (pc = "returned" /\ arg.f = "_tokenize") =>
        /\ \A n \in 1..Len(result) : C19_WellFormed(result[n])
        /\ \E at \in [1..Len(result) -> 0..Len(arg.x)] :
              /\ \A n \in 1..Len(result) :
                    /\ at[n] + Len(result[n]) <= Len(arg.x)
                    /\ Lower(SubSeq(arg.x, at[n] + 1, at[n] + Len(result[n]))) = result[n]
              /\ \A n \in 1..(Len(result) - 1) : at[n] + Len(result[n]) <= at[n + 1]

----------------------------------------------------------------------------
(* C20: tokenization is idempotent: for every text, the tokens of the tokens
   of the text joined by single spaces are the tokens of the text *)

RECURSIVE C20_JoinSpaces(_)
C20_JoinSpaces(tokens) ==
    IF tokens = <<>> THEN <<>>
    ELSE IF Len(tokens) = 1 THEN tokens[1]
    ELSE tokens[1] \o <<32>> \o C20_JoinSpaces(Tail(tokens))

C20_TokenizeIsIdempotent ==
    (pc = "returned" /\ arg.f = "_tokenize") =>
        _tokenize(C20_JoinSpaces(result)) = result

C20_Witness ==
    /\ pc = "returned" /\ arg.f = "_tokenize"
    /\ Len(result) = 2
    /\ Len(arg.x) > Len(C20_JoinSpaces(result))
    /\ C20_JoinSpaces(result) # Lower(arg.x)
    /\ \E i \in 1..Len(arg.x) : arg.x[i] \in AsciiUpper
    /\ result[1][Len(result[1])] = 45

----------------------------------------------------------------------------
(* C21: the histograms of a Summary come in canonical order:
   messages_by_month and messages_by_day_local list their keys in ascending,
   that is chronological, order; messages_by_weekday has exactly the keys
   Mon .. Sun in that order and messages_by_hour_local exactly the keys
   0 .. 23 in that order, a bucket without messages being there with the
   count 0 *)

\* the months since year 0 that a key "YYYY-MM" names, the days that a key
\* "YYYY-MM-DD" names (31 to a month, which keeps the order)
C21_MonthNumber(key) == ParseInt(SubSeq(key, 1, 4)) * 12 + ParseInt(SubSeq(key, 6, 7))

C21_DayNumber(key) == C21_MonthNumber(key) * 31 + ParseInt(SubSeq(key, 9, 10))

C21_OnWeekday(n) ==
    {i \in 1..Len(dataset.messages) : WeekdayOf(dataset.messages[i].created_at) = n}

C21_InHour(n) ==
    {i \in 1..Len(dataset.messages) :
        DtShift(dataset.messages[i].created_at, tz).s \div 3600 = n}

C21_HistogramsInOrder ==
    Summarized =>
        /\ \A i \in 1..(Len(summary.messages_by_month) - 1) :
              C21_MonthNumber(summary.messages_by_month[i][1])
                  < C21_MonthNumber(summary.messages_by_month[i + 1][1])
        /\ \A i \in 1..(Len(summary.messages_by_day_local) - 1) :
              C21_DayNumber(summary.messages_by_day_local[i][1])
                  < C21_DayNumber(summary.messages_by_day_local[i + 1][1])
        /\ Len(summary.messages_by_weekday) = 7
        /\ \A i \in 1..7 :
              /\ summary.messages_by_weekday[i][1] = WeekdayNames[i]
              /\ summary.messages_by_weekday[i][2] = Cardinality(C21_OnWeekday(i - 1))
        /\ Len(summary.messages_by_hour_local) = 24
        /\ \A i \in 1..24 :
              /\ summary.messages_by_hour_local[i][1] = DecStr(i - 1)
              /\ summary.messages_by_hour_local[i][2] = Cardinality(C21_InHour(i - 1))

C21_Witness ==
    /\ Summarized
    /\ Len(summary.messages_by_month) >= 2
    /\ Len(summary.messages_by_day_local) >= 2
    /\ \E i \in 1..7 : summary.messages_by_weekday[i][2] = 0
    /\ \E i \in 1..7 : summary.messages_by_weekday[i][2] >= 1
    /\ \E i \in 1..24 : summary.messages_by_hour_local[i][2] >= 1

----------------------------------------------------------------------------
(* C22: for a Dataset without messages, whatever its list of conversations,
   summarize returns a Summary in which total_messages, the counts by role,
   total_words, active_days, longest_streak_days, busiest_day_messages and
   busiest_hour_messages are 0, words_per_message is 0.0, the first and last
   message and the busiest day and hour are absent, the histograms by month
   and by day are empty, those by weekday and by hour are zero throughout,
   and every top-K table, the excerpts and the fun facts are empty *)

C22_EmptyDatasetEmptySummary ==
    (Summarized /\ dataset.messages = <<>>) =>
        /\ summary.t = "summary"
        /\ summary.total_messages = 0
        /\ summary.total_user_messages = 0
        /\ summary.total_assistant_messages = 0
        /\ summary.total_words = 0
        /\ summary.active_days = 0
        /\ summary.longest_streak_days = 0
        /\ summary.busiest_day_messages = 0
        /\ summary.busiest_hour_messages = 0
        /\ summary.words_per_message = [num |-> 0, den |-> 1]
        /\ summary.first_message = Null
        /\ summary.last_message = Null
        /\ summary.busiest_day_local = Null
        /\ summary.busiest_hour_local = Null
        /\ summary.messages_by_month = <<>>
        /\ summary.messages_by_day_local = <<>>
        /\ Len(summary.messages_by_weekday) = 7
        /\ \A i \in 1..7 : summary.messages_by_weekday[i][2] = 0
        /\ Len(summary.messages_by_hour_local) = 24
        /\ \A i \in 1..24 : summary.messages_by_hour_local[i][2] = 0
        /\ summary.top_words = <<>>
        /\ summary.top_bigrams = <<>>
        /\ summary.top_titles = <<>>
        /\ summary.top_models = <<>>
        /\ summary.longest_conversations = <<>>
        /\ summary.excerpts = <<>>
        /\ summary.fun_facts = <<>>

C22_Witness ==
    /\ Summarized
    /\ dataset.messages = <<>>
    /\ Len(dataset.conversations) = MaxConvs
    /\ summary.total_conversations = MaxConvs

----------------------------------------------------------------------------
(* C23: when ingestion fails fatally (the export path is missing or
   unsupported, conversations.json is absent or malformed, or its top level
   is not a list) the run aborts with that error and writes no partial
   output: none of summary.json, report.html and share.svg is produced and
   the output location is left as it was before the run *)

Aborted == pc = "failed" /\ IsRaise(dataset)

C23_OutputLocationUntouched ==
    Aborted =>
        /\ fs.out_dir = fs.before.out_dir
        /\ fs.out_files = fs.before.out_files

\* what holds of the code: an aborted run writes none of the three files,
\* but it has made the output directory
C23_NoOutputFileWritten ==
    Aborted => fs.out_dir /\ fs.out_files = fs.before.out_files

C23_WitnessOfNewDirectory ==
    /\ Aborted
    /\ dataset = Raise("ValueError")
    /\ ~fs.before.out_dir
    /\ fs.out_dir
    /\ fs.out_files = {}

----------------------------------------------------------------------------
(* C26: when the export is a zip archive and no extraction directory is
   given, the temporary directory the archive is extracted into exists for
   the whole time conversations.json is loaded and normalised, and it is
   removed by the time read_export finishes, whether it returns or raises;
   when the export is a directory, that directory is only read and never
   removed *)

InsideExportSource == pc \in {"opened", "loaded", "raising", "returning"}

ReadExportFinished == pc \in {"failed", "ingested", "summarized", "wrote 1", "wrote 2", "done"}

C26_TemporaryDirectoryScoped ==
    /\ (fs.export = "zip" /\ fs.extract_dir = "none") =>
        /\ InsideExportSource => fs.tmp = "exists" /\ fs.source_dir = "tmp"
        /\ ReadExportFinished => fs.tmp = "removed"
    /\ (pc # "start" /\ fs.source_dir = "export") =>
        /\ fs.export = "dir"
        /\ fs.tmp = "none"
        /\ fs.extract_dir \in {"none", "absent", "exists"}

C26_Witness ==
    /\ pc = "failed"
    /\ fs.export = "zip"
    /\ fs.extract_dir = "none"
    /\ fs.tmp = "removed"
    /\ dataset \in {Raise("ValueError"), Raise("JSONDecodeError"), Raise("FileNotFoundError")}

C26_WitnessOfReturn ==
    /\ pc = "ingested"
    /\ fs.export = "zip"
    /\ fs.extract_dir = "none"
    /\ fs.tmp = "removed"
    /\ dataset.t = "dataset"
    /\ Len(dataset.messages) >= 1

C26_WitnessOfDirectory ==
    /\ pc = "done"
    /\ fs.export = "dir"
    /\ fs.source_dir = "export"

----------------------------------------------------------------------------
(* C24: busiest_day_local is a key of the histogram of local days whose
   count is the highest, and busiest_day_messages is that count; the same
   holds of busiest_hour_local, busiest_hour_messages and the histogram of
   local hours.  Of several buckets with the highest count the one chosen
   is the one met first, that is the one whose first message is earliest
   in the order of the Dataset.  busiest_hour_local is an integer from 0
   to 23 *)

\* the local day (days since 1970-01-01) and the local hour of the i-th
\* message
C24_Day(i) == DtShift(dataset.messages[i].created_at, tz).d

C24_Hour(i) == DtShift(dataset.messages[i].created_at, tz).s \div 3600

C24_OnDayOf(i) == {j \in 1..Len(dataset.messages) : C24_Day(j) = C24_Day(i)}

C24_InHourOf(i) == {j \in 1..Len(dataset.messages) : C24_Hour(j) = C24_Hour(i)}

\* the message whose bucket is the busiest: no bucket is larger, and no
\* bucket as large holds an earlier message
C24_IsFirstBusiest(i, bucket(_)) ==
    /\ \A j \in bucket(i) : i <= j
    /\ \A j \in 1..Len(dataset.messages) :
        \/ Cardinality(bucket(j)) < Cardinality(bucket(i))
        \/ (Cardinality(bucket(j)) = Cardinality(bucket(i)) /\ \E k \in bucket(i) : k <= j)

C24_BusiestIsFirstMaximum ==
    (Summarized /\ dataset.messages # <<>>) =>
        /\ \E i \in 1..Len(dataset.messages) :
            /\ C24_IsFirstBusiest(i, C24_OnDayOf)
            /\ summary.busiest_day_local = JStr(DateIso(Dt(C24_Day(i), 0)))
            /\ summary.busiest_day_messages = Cardinality(C24_OnDayOf(i))
            /\ <<summary.busiest_day_local.s, summary.busiest_day_messages>>
                    \in {summary.messages_by_day_local[k] :
                            k \in 1..Len(summary.messages_by_day_local)}
        /\ \E i \in 1..Len(dataset.messages) :
            /\ C24_IsFirstBusiest(i, C24_InHourOf)
            /\ summary.busiest_hour_local = JNum(C24_Hour(i))
            /\ summary.busiest_hour_messages = Cardinality(C24_InHourOf(i))
            /\ summary.messages_by_hour_local[C24_Hour(i) + 1][2]
                    = summary.busiest_hour_messages
        /\ summary.busiest_hour_local.n \in 0..23
        /\ \A k \in 1..Len(summary.messages_by_day_local) :
            summary.messages_by_day_local[k][2] <= summary.busiest_day_messages
        /\ \A k \in 1..24 :
            summary.messages_by_hour_local[k][2] <= summary.busiest_hour_messages

\* two hours tie and the later hour of the day is met first
C24_Witness ==
    /\ Summarized
    /\ Len(dataset.messages) >= 2
    /\ summary.busiest_hour_local.t = "num"
    /\ \E k \in 1..24 :
        /\ k - 1 < summary.busiest_hour_local.n
        /\ summary.messages_by_hour_local[k][2] = summary.busiest_hour_messages
    /\ Len(summary.messages_by_day_local) >= 2
    /\ summary.messages_by_day_local[2][2] = summary.busiest_day_messages
    /\ summary.busiest_day_local.s = summary.messages_by_day_local[1][1]

\* a bucket that is not the first is the busiest
C24_WitnessOfLater ==
    /\ Summarized
    /\ Len(summary.messages_by_day_local) >= 2
    /\ summary.busiest_day_local.t = "str"
    /\ summary.busiest_day_local.s # summary.messages_by_day_local[1][1]
    /\ summary.busiest_day_messages >= 2

----------------------------------------------------------------------------
(* C25: summarize has no side effect: it leaves the Dataset it is given as
   it was and keeps no state from one call to the next, so that two calls
   in succession with the same Dataset and options, under the same local
   time zone, return equal Summaries *)

----------------------------------------------------------------------------
(* C27: a bigram is formed from two tokens that are adjacent in the
   filtered token sequence of one message: it may join two tokens that only
   discarded tokens separated in the text, and it never joins the last
   token of a message with the first token of the next.  The bigrams
   counted are therefore, summed over the messages, max(0, n - 1) for a
   message of n surviving tokens, while total_words is the sum of n *)

\* the places <<i, k>> at which the k-th and the next token of the i-th
\* message make the bigram key
C27_Places(tokens, key) ==
    {p \in (1..Len(tokens)) \X (1..MaxWords) :
        /\ p[2] < Len(tokens[p[1]])
        /\ tokens[p[1]][p[2]] \o <<32>> \o tokens[p[1]][p[2] + 1] = key}

RECURSIVE C27_Surviving(_)
C27_Surviving(tokens) ==
    IF tokens = <<>> THEN 0 ELSE Len(Head(tokens)) + C27_Surviving(Tail(tokens))

RECURSIVE C27_Adjacent(_)
C27_Adjacent(tokens) ==
    IF tokens = <<>> THEN 0
    ELSE (IF Len(Head(tokens)) > 1 THEN Len(Head(tokens)) - 1 ELSE 0)
            + C27_Adjacent(Tail(tokens))

RECURSIVE C27_Counted(_)
C27_Counted(table) == IF table = <<>> THEN 0 ELSE Head(table)[2] + C27_Counted(Tail(table))

C27_BigramsWithinMessages ==
    Summarized =>
        LET tokens == [i \in 1..Len(dataset.messages) |-> _tokenize(dataset.messages[i].text)]
        IN  /\ summary.total_words = C27_Surviving(tokens)
            /\ \A n \in 1..Len(summary.top_bigrams) :
                summary.top_bigrams[n][2]
                    = Cardinality(C27_Places(tokens, summary.top_bigrams[n][1]))
            /\ Len(summary.top_bigrams) < TopBigramsLimit =>
                C27_Counted(summary.top_bigrams) = C27_Adjacent(tokens)
            /\ C27_Counted(summary.top_bigrams) <= C27_Adjacent(tokens)

\* "fox the hi fox" and then "hi fox ... co 555-1234": "fox hi" joins over
\* the stop word, and the second "fox hi" would join the two messages
C27_Witness ==
    /\ Summarized
    /\ Len(dataset.messages) = 2
    /\ dataset.messages[1].text = s_the_fox
    /\ dataset.messages[2].text = s_two_lines
    /\ summary.total_words = 7
    /\ Len(summary.top_bigrams) = 4
    /\ \A n \in 1..Len(summary.top_bigrams) :
        summary.top_bigrams[n][1] = <<102, 111, 120, 32, 104, 105>> =>
            summary.top_bigrams[n][2] = 1
    /\ \E n \in 1..Len(summary.top_bigrams) :
        summary.top_bigrams[n][1] = <<102, 111, 120, 32, 104, 105>>

\* a message of MaxWords words, whose bigrams the table cannot all hold
C27_WitnessOfFullTable ==
    /\ Summarized
    /\ Len(summary.top_bigrams) = TopBigramsLimit
    /\ summary.total_words = MaxWords

----------------------------------------------------------------------------
(* C28: longest_conversations is keyed by the title of the conversation,
   not by its id: it is the first 10 entries of top_titles, and
   conversations that share a title ("Untitled" included) appear in it as
   one entry whose count is the sum of their messages *)

C28_Titled(title) ==
    {i \in 1..Len(dataset.messages) :
        (IF dataset.messages[i].conversation_title = <<>> THEN s_Untitled
         ELSE dataset.messages[i].conversation_title) = title}

C28_LongestConversationsAreTopTitles ==
    Summarized =>
        /\ summary.longest_conversations
                = SubSeq(summary.top_titles, 1,
                         IF Len(summary.top_titles) < 10 THEN Len(summary.top_titles) ELSE 10)
        /\ \A n \in 1..Len(summary.longest_conversations) :
            /\ summary.longest_conversations[n][2]
                    = Cardinality(C28_Titled(summary.longest_conversations[n][1]))
            /\ \A k \in 1..(n - 1) :
                summary.longest_conversations[k][1] # summary.longest_conversations[n][1]

\* several conversations of one title, counted as one entry
C28_Witness ==
    /\ Summarized
    /\ Len(summary.longest_conversations) >= 2
    /\ \E n \in 1..Len(summary.longest_conversations) :
        LET titled == C28_Titled(summary.longest_conversations[n][1])
        IN  /\ Cardinality({dataset.messages[i].conversation_id : i \in titled}) >= 3
            /\ summary.longest_conversations[n][2] = Cardinality(titled)

\* more titles than the table holds
C28_WitnessOfManyTitles ==
    /\ Summarized
    /\ Len(summary.top_titles) = TopTitlesLimit
    /\ Len(summary.longest_conversations) = LongestConversationsLimit

\* messages without a title, counted under "Untitled" (a Dataset built by
\* hand, under SpecFunctions)
C28_WitnessOfUntitled ==
    /\ Summarized
    /\ Len(summary.longest_conversations) >= 1
    /\ summary.longest_conversations[1] = <<s_Untitled, 2>>
    /\ \A i \in C28_Titled(s_Untitled) : dataset.messages[i].conversation_title = <<>>

====
